---- MODULE Spec2Model ----
(***************************************************************************)
(* A model of the Pipe of ganbarodigital/go_pipe (src/pipe.go): the three  *)
(* stream roles, their redirection stacks, and the status / error pair     *)
(* that RunCommand maintains.                                               *)
(*                                                                         *)
(* A stream (ioextra.TextBuffer behind an interface value) is modelled as  *)
(* a slot: an identity (a positive number, 0 for the nil interface) plus   *)
(* its contents, kept in `heap`.  Go compares interface values holding     *)
(* pointers by identity, so `p.Stdout == p.Stderr` is equality of slot     *)
(* identities here; the contents never take part in it.                    *)
(***************************************************************************)
EXTENDS Integers, Sequences, FiniteSets, TLC

VARIABLES
    p,         \* the *Pipe the caller holds (NilPipe for a nil pointer)
    heap,      \* contents of every live slot: identity -> sequence of texts
    last,      \* history: the last operation, its argument, and what the
               \*          caller saw just before it
    depth,     \* history: per role, pushes minus pops that found an entry
    run,       \* history: the current "pushes, then pops" run on one role
    sq,        \* the *Sequence the caller holds (NilSequence for a nil pointer)
    mem,       \* the Sources and Dests of the sequence's pipe, and how many
               \*          were made
    pc,        \* where the controller of the sequence is in its loop
    trace,     \* history: what the steps of the sequence saw, did and returned
    ctor       \* where NewPipe is in its body, and history: the options it
               \*          was given, those it called and what they returned

pipevars == <<p, heap, last, depth, run>>

seqvars == <<sq, mem, pc, trace>>

vars == <<p, heap, last, depth, run, sq, mem, pc, trace, ctor>>

----------------------------------------------------------------------------
(* Bounds *)

\* Spec and SpecStackOps offer a push only while the three stacks together
\* hold fewer entries than this
MaxStack == 1

\* SpecRedirect offers a push only while the three stacks together hold
\* fewer entries than this
MaxDepth == 2

\* a sequence has at most this many steps
MaxSteps == 3

\* SpecNewPipe hands NewPipe at most this many options
MaxOptions == 2

----------------------------------------------------------------------------
(* Program constants *)

StatusOkay == 0
StatusNotOkay == 1

\* the nil interface value / nil stream
NilSlot == 0

----------------------------------------------------------------------------
(* Values *)

Roles == {"Stdin", "Stdout", "Stderr"}

\* status codes a command may return
Statuses == {StatusOkay, StatusNotOkay, 2}

\* texts a command may write
Texts == {"a", "b"}

\* Go's nil error
NoErr == [kind |-> "nil", name |-> "", code |-> 0]

\* an error value made by the command itself (errors.New)
CmdErr == [kind |-> "errors.New", name |-> "status not okay", code |-> 0]

ErrNonZeroStatusCode(name, code) ==
    [kind |-> "ErrNonZeroStatusCode", name |-> name, code |-> code]

\* a nil *Pipe
NilPipe ==
    [isnil |-> TRUE,
     Stdin |-> NilSlot, Stdout |-> NilSlot, Stderr |-> NilSlot,
     stdinStack |-> <<>>, stdoutStack |-> <<>>, stderrStack |-> <<>>,
     err |-> NoErr, statusCode |-> 0]

\* the zero value Pipe{}
ZeroPipe == [NilPipe EXCEPT !.isnil = FALSE]

SeqRange(s) == {s[i] : i \in 1..Len(s)}

\* every slot the pipe refers to
Refs(q) ==
    ({q.Stdin, q.Stdout, q.Stderr} \cup SeqRange(q.stdinStack)
        \cup SeqRange(q.stdoutStack) \cup SeqRange(q.stderrStack)) \ {NilSlot}

\* ioextra.NewTextBuffer(): the identity of a buffer nobody refers to yet
NewTextBuffer(h) ==
    CHOOSE i \in 1..(Cardinality(DOMAIN h) + 1) :
        /\ i \notin DOMAIN h
        /\ \A j \in 1..(i - 1) : j \in DOMAIN h

\* the heap once that buffer exists (it starts empty)
Alloc(h) == (NewTextBuffer(h) :> <<>>) @@ h

\* garbage collection: only the slots in `roots` are still referred to
GC(roots, h) == [s \in (roots \cap DOMAIN h) |-> h[s]]

\* Write / WriteString on a stream
WriteString(h, s, text) ==
    IF s = NilSlot \/ text = <<>> THEN h
    ELSE [h EXCEPT ![s] = @ \o text]

----------------------------------------------------------------------------
(* The Pipe's methods, as functions of the pipe (and of the heap where a   *)
(* method creates a buffer or runs a command).                              *)

Top(stack) == stack[Len(stack)]
Pop(stack) == SubSeq(stack, 1, Len(stack) - 1)

Error(q) == IF q.isnil THEN NoErr ELSE q.err

Okay(q) == IF q.isnil THEN TRUE ELSE q.err = NoErr

StatusCode(q) == IF q.isnil THEN StatusOkay ELSE q.statusCode

StatusError(q) == IF q.isnil THEN <<StatusOkay, NoErr>> ELSE <<q.statusCode, q.err>>

StdinStackLen(q) == IF q.isnil THEN 0 ELSE Len(q.stdinStack)

StdoutStackLen(q) == IF q.isnil THEN 0 ELSE Len(q.stdoutStack)

StderrStackLen(q) == IF q.isnil THEN 0 ELSE Len(q.stderrStack)

\* the methods that create a buffer return the pipe and the heap
SetNewStdin(q, h) ==
    IF q.isnil THEN [pipe |-> q, heap |-> h]
    ELSE [pipe |-> [q EXCEPT !.Stdin = NewTextBuffer(h)], heap |-> Alloc(h)]

\* faulty variant: puts Stderr on the new buffer too when the output roles
\* are one stream
SetNewStdoutAliasing(q, h) ==
    IF q.isnil THEN [pipe |-> q, heap |-> h]
    ELSE [pipe |-> [q EXCEPT !.Stdout = NewTextBuffer(h),
                             !.Stderr = IF q.Stdout = q.Stderr
                                        THEN NewTextBuffer(h) ELSE @],
          heap |-> Alloc(h)]

SetNewStdout(q, h) ==
    IF q.isnil THEN [pipe |-> q, heap |-> h]
    ELSE [pipe |-> [q EXCEPT !.Stdout = NewTextBuffer(h)], heap |-> Alloc(h)]

\* faulty variant: leaves Stderr as it is
SetNewStderrSkipped(q, h) == [pipe |-> q, heap |-> h]

SetNewStderr(q, h) ==
    IF q.isnil THEN [pipe |-> q, heap |-> h]
    ELSE [pipe |-> [q EXCEPT !.Stderr = NewTextBuffer(h)], heap |-> Alloc(h)]

\* faulty variant: leaves the three stacks as they are
ResetBuffersKeepsStacks(q, h) ==
    IF q.isnil THEN [pipe |-> q, heap |-> h]
    ELSE LET a == SetNewStdin(q, h)
             b == SetNewStdout(a.pipe, a.heap)
         IN  SetNewStderr(b.pipe, b.heap)

ResetBuffers(q, h) ==
    IF q.isnil THEN [pipe |-> q, heap |-> h]
    ELSE LET a == SetNewStdin(q, h)
             b == SetNewStdout(a.pipe, a.heap)
             c == SetNewStderr(b.pipe, b.heap)
         IN  [pipe |-> [c.pipe EXCEPT !.stdinStack = <<>>,
                                      !.stdoutStack = <<>>,
                                      !.stderrStack = <<>>],
              heap |-> c.heap]

\* faulty variant: clears the error and leaves the status code
ResetErrorKeepsStatus(q) ==
    IF q.isnil THEN q
    ELSE [q EXCEPT !.err = NoErr]

ResetError(q) ==
    IF q.isnil THEN q
    ELSE [q EXCEPT !.statusCode = StatusOkay, !.err = NoErr]

\* faulty variant: does not look at the receiver
PushStdinUnguarded(q, newStdin) ==
    [q EXCEPT !.stdinStack = Append(@, q.Stdin), !.Stdin = newStdin]

PushStdin(q, newStdin) ==
    IF q.isnil THEN q
    ELSE [q EXCEPT !.stdinStack = Append(@, q.Stdin), !.Stdin = newStdin]

\* faulty variant: treats Stdin like an output role, and restores Stdout
\* too when Stdin and Stdout are one stream
PopStdinAliasing(q) ==
    IF q.isnil THEN q
    ELSE IF Len(q.stdinStack) = 0 THEN q
    ELSE [q EXCEPT !.Stdout = IF q.Stdin = q.Stdout THEN Top(q.stdinStack) ELSE @,
                   !.Stdin = Top(q.stdinStack), !.stdinStack = Pop(@)]

\* faulty variant: restores the oldest entry, not the newest
PopStdinFifo(q) ==
    IF q.isnil THEN q
    ELSE IF Len(q.stdinStack) = 0 THEN q
    ELSE [q EXCEPT !.Stdin = Head(q.stdinStack), !.stdinStack = Tail(@)]

PopStdin(q) ==
    IF q.isnil THEN q
    ELSE IF Len(q.stdinStack) = 0 THEN q
    ELSE [q EXCEPT !.Stdin = Top(q.stdinStack), !.stdinStack = Pop(@)]

\* faulty variant: never looks at Stderr
PushStdoutNoAlias(q, newStdout) ==
    IF q.isnil THEN q
    ELSE [q EXCEPT !.stdoutStack = Append(@, q.Stdout), !.Stdout = newStdout]

PushStdout(q, newStdout) ==
    IF q.isnil THEN q
    ELSE LET q1 == IF q.Stdout = q.Stderr
                   THEN [q EXCEPT !.Stderr = newStdout]
                   ELSE q
         IN  [q1 EXCEPT !.stdoutStack = Append(@, q1.Stdout),
                        !.Stdout = newStdout]

\* faulty variant: never looks at Stderr
PopStdoutNoAlias(q) ==
    IF q.isnil THEN q
    ELSE IF Len(q.stdoutStack) = 0 THEN q
    ELSE [q EXCEPT !.Stdout = Top(q.stdoutStack), !.stdoutStack = Pop(@)]

PopStdout(q) ==
    IF q.isnil THEN q
    ELSE IF Len(q.stdoutStack) = 0 THEN q
    ELSE LET oldStdout == Top(q.stdoutStack)
             q1 == [q EXCEPT !.stdoutStack = Pop(@)]
             q2 == IF q1.Stdout = q1.Stderr
                   THEN [q1 EXCEPT !.Stderr = oldStdout]
                   ELSE q1
         IN  [q2 EXCEPT !.Stdout = oldStdout]

\* faulty variant: restores Stderr too when the roles are one stream
PopStdoutOnlyPaired(q) ==
    IF q.isnil THEN q
    ELSE IF Len(q.stdoutStack) = 0 THEN q
    ELSE LET oldStdout == Top(q.stdoutStack)
             q1 == [q EXCEPT !.stdoutStack = Pop(@)]
             q2 == IF q1.Stdout = q1.Stderr
                   THEN [q1 EXCEPT !.Stderr = oldStdout]
                   ELSE q1
         IN  [q2 EXCEPT !.Stdout = oldStdout]

PopStdoutOnly(q) ==
    IF q.isnil THEN q
    ELSE IF Len(q.stdoutStack) = 0 THEN q
    ELSE [q EXCEPT !.Stdout = Top(q.stdoutStack), !.stdoutStack = Pop(@)]

\* faulty variant: pushes on both output stacks when the output roles are
\* one stream
PushStderrOnBothStacks(q, newStderr) ==
    IF q.isnil THEN q
    ELSE LET q1 == IF q.Stdout = q.Stderr
                   THEN [q EXCEPT !.stdoutStack = Append(@, q.Stdout),
                                  !.Stdout = newStderr]
                   ELSE q
         IN  [q1 EXCEPT !.stderrStack = Append(@, q1.Stderr),
                        !.Stderr = newStderr]

\* faulty variant: takes two streams with equal contents for one stream
PushStderrByContent(q, newStderr) ==
    IF q.isnil THEN q
    ELSE LET same == IF q.Stdout \in DOMAIN heap /\ q.Stderr \in DOMAIN heap
                     THEN heap[q.Stdout] = heap[q.Stderr]
                     ELSE q.Stdout = q.Stderr
             q1 == IF same THEN [q EXCEPT !.Stdout = newStderr] ELSE q
         IN  [q1 EXCEPT !.stderrStack = Append(@, q1.Stderr),
                        !.Stderr = newStderr]

PushStderr(q, newStderr) ==
    IF q.isnil THEN q
    ELSE LET q1 == IF q.Stdout = q.Stderr
                   THEN [q EXCEPT !.Stdout = newStderr]
                   ELSE q
         IN  [q1 EXCEPT !.stderrStack = Append(@, q1.Stderr),
                        !.Stderr = newStderr]

\* faulty variant: restores Stderr and never looks at Stdout
PopStderrForgetsStdout(q) ==
    IF q.isnil THEN q
    ELSE IF Len(q.stderrStack) = 0 THEN q
    ELSE [q EXCEPT !.Stderr = Top(q.stderrStack), !.stderrStack = Pop(@)]

\* faulty variant: pops without looking at the length of the stack
PopStderrUnchecked(q) ==
    IF q.isnil THEN q
    ELSE LET oldStderr == IF Len(q.stderrStack) = 0 THEN NilSlot
                          ELSE Top(q.stderrStack)
             q1 == [q EXCEPT !.stderrStack = Pop(@)]
             q2 == IF q1.Stdout = q1.Stderr
                   THEN [q1 EXCEPT !.Stdout = oldStderr]
                   ELSE q1
         IN  [q2 EXCEPT !.Stderr = oldStderr]

PopStderr(q) ==
    IF q.isnil THEN q
    ELSE IF Len(q.stderrStack) = 0 THEN q
    ELSE LET oldStderr == Top(q.stderrStack)
             q1 == [q EXCEPT !.stderrStack = Pop(@)]
             q2 == IF q1.Stdout = q1.Stderr
                   THEN [q1 EXCEPT !.Stdout = oldStderr]
                   ELSE q1
         IN  [q2 EXCEPT !.Stderr = oldStderr]

\* faulty variant: restores Stderr and leaves the entry on the stack
PopStderrOnlyKeep(q) ==
    IF q.isnil THEN q
    ELSE IF Len(q.stderrStack) = 0 THEN q
    ELSE [q EXCEPT !.Stderr = Top(q.stderrStack)]

PopStderrOnly(q) ==
    IF q.isnil THEN q
    ELSE IF Len(q.stderrStack) = 0 THEN q
    ELSE [q EXCEPT !.Stderr = Top(q.stderrStack), !.stderrStack = Pop(@)]

\* A PipeCommand, as far as the pipe can tell: what it writes to the pipe's
\* Stdout and Stderr while it runs, and the (status, error) it returns.
Commands ==
    [status : Statuses, err : {NoErr, CmdErr},
     out : {<<>>} \cup {<<t>> : t \in Texts},
     errout : {<<>>} \cup {<<t>> : t \in Texts}]

\* the commands that write nothing
QuietCommands == {c \in Commands : c.out = <<>> /\ c.errout = <<>>}

\* c(p): the command runs against the pipe
Call(c, q, h) == WriteString(WriteString(h, q.Stdout, c.out), q.Stderr, c.errout)

\* faulty variant: makes the error for the status StatusNotOkay only
RunCommandSynthOnlyNotOkay(q, h, c) ==
    IF q.isnil \/ q.Stdin = NilSlot \/ q.Stdout = NilSlot
    THEN [pipe |-> q, heap |-> h, called |-> 0]
    ELSE LET q1 == [q EXCEPT !.statusCode = c.status, !.err = c.err]
             q2 == IF q1.statusCode = StatusNotOkay /\ q1.err = NoErr
                   THEN [q1 EXCEPT !.err = ErrNonZeroStatusCode("command", q1.statusCode)]
                   ELSE q1
         IN  [pipe |-> q2, heap |-> Call(c, q, h), called |-> 1]

\* faulty variant: runs the command on any pipe that is not nil
RunCommandOnlyNilCheck(q, h, c) ==
    IF q.isnil
    THEN [pipe |-> q, heap |-> h, called |-> 0]
    ELSE LET q1 == [q EXCEPT !.statusCode = c.status, !.err = c.err]
             q2 == IF q1.statusCode # StatusOkay /\ q1.err = NoErr
                   THEN [q1 EXCEPT !.err = ErrNonZeroStatusCode("command", q1.statusCode)]
                   ELSE q1
         IN  [pipe |-> q2, heap |-> Call(c, q, h), called |-> 1]

\* faulty variant: stores what the command returned and makes no error
RunCommandNoSynth(q, h, c) ==
    IF q.isnil \/ q.Stdin = NilSlot \/ q.Stdout = NilSlot
    THEN [pipe |-> q, heap |-> h, called |-> 0]
    ELSE [pipe |-> [q EXCEPT !.statusCode = c.status, !.err = c.err],
          heap |-> Call(c, q, h), called |-> 1]

\* faulty variant: a nil error from the command keeps the error of an
\* earlier command
RunCommandSticky(q, h, c) ==
    IF q.isnil \/ q.Stdin = NilSlot \/ q.Stdout = NilSlot
    THEN [pipe |-> q, heap |-> h, called |-> 0]
    ELSE LET q1 == [q EXCEPT !.statusCode = c.status,
                             !.err = IF c.err = NoErr THEN @ ELSE c.err]
             q2 == IF q1.statusCode # StatusOkay /\ q1.err = NoErr
                   THEN [q1 EXCEPT !.err = ErrNonZeroStatusCode("command", q1.statusCode)]
                   ELSE q1
         IN  [pipe |-> q2, heap |-> Call(c, q, h), called |-> 1]

\* faulty variant: runs the command on a pipe without Stdout
RunCommandNoStdoutCheck(q, h, c) ==
    IF q.isnil \/ q.Stdin = NilSlot
    THEN [pipe |-> q, heap |-> h, called |-> 0]
    ELSE LET q1 == [q EXCEPT !.statusCode = c.status, !.err = c.err]
             q2 == IF q1.statusCode # StatusOkay /\ q1.err = NoErr
                   THEN [q1 EXCEPT !.err = ErrNonZeroStatusCode("command", q1.statusCode)]
                   ELSE q1
         IN  [pipe |-> q2, heap |-> Call(c, q, h), called |-> 1]

\* called is the number of times RunCommand invoked the command
RunCommand(q, h, c) ==
    IF q.isnil \/ q.Stdin = NilSlot \/ q.Stdout = NilSlot
    THEN [pipe |-> q, heap |-> h, called |-> 0]
    ELSE LET q1 == [q EXCEPT !.statusCode = c.status, !.err = c.err]
             q2 == IF q1.statusCode # StatusOkay /\ q1.err = NoErr
                   THEN [q1 EXCEPT !.err = ErrNonZeroStatusCode("command", q1.statusCode)]
                   ELSE q1
         IN  [pipe |-> q2, heap |-> Call(c, q, h), called |-> 1]

\* DrainStdinToStdout: io.Copy(p.Stdout, p.Stdin), which reads Stdin to its
\* end; a missing Stdout is made first
DrainStdinToStdout(q, h) ==
    IF q.isnil THEN [pipe |-> q, heap |-> h]
    ELSE IF q.Stdin = NilSlot THEN [pipe |-> q, heap |-> h]
    ELSE LET a == IF q.Stdout = NilSlot THEN SetNewStdout(q, h)
                  ELSE [pipe |-> q, heap |-> h]
             from == a.pipe.Stdin
             to == a.pipe.Stdout
         IN  [pipe |-> a.pipe,
              heap |-> IF from = to THEN a.heap
                       ELSE [a.heap EXCEPT ![to] = @ \o a.heap[from],
                                           ![from] = <<>>]]

\* SetStdinFromString: Stdin becomes a new buffer holding the input
SetStdinFromString(q, h, input) ==
    IF q.isnil THEN [pipe |-> q, heap |-> h]
    ELSE LET a == SetNewStdin(q, h) IN
         [pipe |-> a.pipe, heap |-> WriteString(a.heap, a.pipe.Stdin, input)]

\* SetStatusCode, the helper the tests use
SetStatusCode(q, newStatusCode) == [q EXCEPT !.statusCode = newStatusCode]

\* the error a functional option may return
OptionErr == [kind |-> "errors.New", name |-> "option failed", code |-> 0]

\* A functional option: what it does to the pipe it is handed, and the
\* (status, error) it returns.
\*   AliasOutputs    puts both output roles on one buffer, as the tests do
\*   AttachOsStdin, AttachOsStdout, AttachOsStderr
\*                   put a role on a stream of the process
\*   SetStatusCode   calls the helper SetStatusCode with its code
\*   ReturnsError    leaves the pipe alone and returns an error
Option(name, code) == [name |-> name, code |-> code]

Options ==
    {Option(n, 0) : n \in {"AliasOutputs", "AttachOsStdin", "AttachOsStdout",
                           "AttachOsStderr", "ReturnsError"}}
        \cup {Option("SetStatusCode", c) : c \in {StatusNotOkay, 2}}

AliasOutputs(q) == [q EXCEPT !.Stderr = q.Stdout]

\* the option lists the pipes of Spec are made with
OptionLists == {<<>>, <<Option("AliasOutputs", 0)>>}

\* option(&retval): the pipe and the heap the option leaves, and what it
\* returns
ApplyOption(o, q, h) ==
    LET a == IF o.name = "AliasOutputs" THEN [pipe |-> AliasOutputs(q), heap |-> h]
             ELSE IF o.name = "AttachOsStdin" THEN SetNewStdin(q, h)
             ELSE IF o.name = "AttachOsStdout" THEN SetNewStdout(q, h)
             ELSE IF o.name = "AttachOsStderr" THEN SetNewStderr(q, h)
             ELSE IF o.name = "SetStatusCode"
                  THEN [pipe |-> SetStatusCode(q, o.code), heap |-> h]
             ELSE [pipe |-> q, heap |-> h]
    IN  [pipe |-> a.pipe, heap |-> a.heap,
         status |-> IF o.name = "ReturnsError" THEN StatusNotOkay ELSE StatusOkay,
         err |-> IF o.name = "ReturnsError" THEN OptionErr ELSE NoErr]

\* faulty variant: calls the options last to first
OptionAtReversed(options, i) == options[Len(options) - i + 1]

\* the option the loop of NewPipe calls in its i-th round
OptionAt(options, i) == options[i]

\* the pipe after `option(&retval)`: what the option returned is dropped
AfterOption(q, a) == a.pipe

\* the loop of NewPipe from its i-th round on
RECURSIVE ApplyOptions(_, _, _, _)
ApplyOptions(options, i, q, h) ==
    IF i > Len(options) THEN [pipe |-> q, heap |-> h]
    ELSE LET a == ApplyOption(OptionAt(options, i), q, h) IN
         ApplyOptions(options, i + 1, AfterOption(q, a), a.heap)

NewPipe(options) ==
    LET a == ResetBuffers(ZeroPipe, <<>>)
        b == ApplyOptions(options, 1, ResetError(a.pipe), a.heap)
    IN  [pipe |-> b.pipe, heap |-> GC(Refs(b.pipe), b.heap)]

----------------------------------------------------------------------------
(* History variables.  They record what a caller of the pipe could write   *)
(* down: which method it called, with what, and what the getters and the   *)
(* exported fields showed just before the call.                             *)

NoRun == [role |-> "none", snaps |-> <<>>, n |-> 0, pops |-> 0, base |-> 0,
          aliased |-> FALSE]

PushOps == {"PushStdin", "PushStdout", "PushStderr"}

PopOps == {"PopStdin", "PopStdout", "PopStdoutOnly", "PopStderr", "PopStderrOnly"}

\* the role a push or a pop works on
RoleOf(op) ==
    IF op \in {"PushStdin", "PopStdin"} THEN "Stdin"
    ELSE IF op \in {"PushStdout", "PopStdout", "PopStdoutOnly"} THEN "Stdout"
    ELSE IF op \in {"PushStderr", "PopStderr", "PopStderrOnly"} THEN "Stderr"
    ELSE "none"

\* the exported field of a role
Active(q, r) ==
    IF r = "Stdin" THEN q.Stdin ELSE IF r = "Stdout" THEN q.Stdout ELSE q.Stderr

\* the StackLen getter of a role
StackLen(q, r) ==
    IF r = "Stdin" THEN StdinStackLen(q)
    ELSE IF r = "Stdout" THEN StdoutStackLen(q)
    ELSE IF r = "Stderr" THEN StderrStackLen(q)
    ELSE 0

\* the two output roles are one and the same stream
Aliased(q) == ~q.isnil /\ q.Stdout = q.Stderr

\* RunCommand has what it needs
Usable(q) == ~q.isnil /\ q.Stdin # NilSlot /\ q.Stdout # NilSlot

\* what the caller records of a call: the method, the stream handed to a
\* push, how often the command was invoked, and what the pipe showed just
\* before the call (whether the output roles were one stream before a push,
\* a pop, ResetBuffers, SetNewStdout or SetNewStderr, StackLen before a pop,
\* the three StackLens
\* together before ResetBuffers, Okay() before RunCommand and ResetError)
Record(op, slot, called) ==
    [op |-> op, slot |-> slot, called |-> called,
     aliased |-> (op \in PushOps \cup PopOps
                        \cup {"ResetBuffers", "SetNewStdout", "SetNewStderr"})
                 /\ Aliased(p),
     len |-> IF op \in PopOps THEN StackLen(p, RoleOf(op))
             ELSE IF op = "ResetBuffers"
                  THEN StdinStackLen(p) + StdoutStackLen(p) + StderrStackLen(p)
             ELSE 0,
     okay |-> (op \in {"RunCommand", "ResetError"}) => Okay(p)]

\* pushes minus effective pops, counted by the caller from what it called
\* and from what StackLen showed before each pop; the count starts again
\* when ResetBuffers empties the stacks
NextDepth(op) ==
    IF p.isnil THEN depth
    ELSE IF op = "ResetBuffers" THEN [r \in Roles |-> 0]
    ELSE IF op \in PushOps THEN [depth EXCEPT ![RoleOf(op)] = @ + 1]
    ELSE IF op \in PopOps /\ StackLen(p, RoleOf(op)) > 0
         THEN [depth EXCEPT ![RoleOf(op)] = @ - 1]
    ELSE depth

\* the run of n pushes on one role followed by pops on the same role that
\* the last operations form: snaps[i] is the slot the role's exported field
\* showed just before the i-th push, base is what StackLen showed before
\* the first push, aliased is whether the output roles were one stream
\* then, pops is the number of pops so far.  A snapshot is dropped once the
\* pop that has to restore it is over.
NextRun(op) ==
    LET r == RoleOf(op) IN
    IF p.isnil THEN NoRun
    ELSE IF op \in PushOps
         THEN IF run.role = r /\ run.pops = 0
              THEN [run EXCEPT !.snaps = Append(@, Active(p, r)), !.n = @ + 1]
              ELSE [role |-> r, snaps |-> <<Active(p, r)>>, n |-> 1,
                    pops |-> 0, base |-> StackLen(p, r),
                    aliased |-> Aliased(p)]
    ELSE IF op \in PopOps /\ run.role = r /\ run.pops < run.n
         THEN [run EXCEPT !.pops = @ + 1,
                          !.snaps = SubSeq(@, 1, run.n - run.pops)]
    ELSE NoRun

----------------------------------------------------------------------------
(* Slot identities.  A Go program can compare two streams for identity and *)
(* nothing else, so states that differ only in the numbers given to the    *)
(* buffers are one state; every state is kept with its buffers numbered in *)
(* the order in which the cells below mention them.                        *)

Cells(q, l, r) ==
    <<q.Stdin, q.Stdout, q.Stderr>> \o q.stdinStack \o q.stdoutStack
        \o q.stderrStack \o <<l.slot>> \o r.snaps

\* the slots the pipe or the caller still refers to
Roots(q, l, r) == SeqRange(Cells(q, l, r)) \ {NilSlot}

NameOf(cells, s) ==
    IF s = NilSlot THEN NilSlot
    ELSE LET first == CHOOSE i \in 1..Len(cells) :
                          /\ cells[i] = s
                          /\ \A j \in 1..(i - 1) : cells[j] # s
         IN  Cardinality({cells[j] : j \in 1..first} \ {NilSlot})

RenameSeq(cells, stack) == [i \in 1..Len(stack) |-> NameOf(cells, stack[i])]

RenamePipe(cells, q) ==
    [q EXCEPT !.Stdin = NameOf(cells, @),
              !.Stdout = NameOf(cells, @),
              !.Stderr = NameOf(cells, @),
              !.stdinStack = RenameSeq(cells, @),
              !.stdoutStack = RenameSeq(cells, @),
              !.stderrStack = RenameSeq(cells, @)]

RenameHeap(cells, h) ==
    LET live == (SeqRange(cells) \ {NilSlot}) \cap DOMAIN h IN
    [n \in {NameOf(cells, s) : s \in live} |->
        h[CHOOSE s \in live : NameOf(cells, s) = n]]

\* one call of a method: the pipe and the heap it leaves, and the history
Step(op, slot, called, q, h) ==
    LET l == Record(op, slot, called)
        r == NextRun(op)
        cells == Cells(q, l, r)
    IN  /\ p' = RenamePipe(cells, q)
        /\ heap' = RenameHeap(cells, h)
        /\ last' = [l EXCEPT !.slot = NameOf(cells, @)]
        /\ depth' = NextDepth(op)
        /\ run' = [r EXCEPT !.snaps = RenameSeq(cells, @)]
        /\ UNCHANGED <<seqvars, ctor>>

----------------------------------------------------------------------------
(* Sequences (src/v3/sequence.go) and their two controllers.  A sequence   *)
(* owns a pipe of the generation that has Next(): Stdin is a *Source,      *)
(* Stdout and Stderr are *Dest.  The contents of a Source or a Dest is a   *)
(* sequence of texts; the text a step writes is the step's number, and the *)
(* text the caller writes before Exec is 0.                                *)

\* a nil *Pipe of that generation
NilSeqPipe ==
    [isnil |-> TRUE, Stdin |-> NilSlot, Stdout |-> NilSlot, Stderr |-> NilSlot,
     Err |-> NoErr, StatusCode |-> 0]

\* `var pipe Pipe`: a pipe without streams
EmptyPipe == [NilSeqPipe EXCEPT !.isnil = FALSE]

NoMem == [cells |-> <<>>, made |-> 0]

\* a new Source or Dest holding `contents`; its identity is .made
NewSlot(m, contents) ==
    [cells |-> ((m.made + 1) :> contents) @@ m.cells, made |-> m.made + 1]

\* what the garbage collector leaves once only `ids` are referred to
Keep(ids, m) == [m EXCEPT !.cells = [s \in (ids \cap DOMAIN m.cells) |-> m.cells[s]]]

\* the three streams of a pipe
Streams(q) == {q.Stdin, q.Stdout, q.Stderr} \ {NilSlot}

\* contents of a stream (nothing for a nil stream)
Contents(m, s) == IF s \in DOMAIN m.cells THEN m.cells[s] ELSE <<>>

SeqNewPipe(m) ==
    LET m1 == NewSlot(m, <<>>)
        m2 == NewSlot(m1, <<>>)
        m3 == NewSlot(m2, <<>>)
    IN  [pipe |-> [EmptyPipe EXCEPT !.Stdin = m1.made, !.Stdout = m2.made,
                                    !.Stderr = m3.made,
                                    !.Err = NoErr, !.StatusCode = StatusOkay],
         mem |-> m3]

\* faulty variant: leaves Stdin as it is
PipeNextKeepsStdin(q, m) ==
    IF q.isnil \/ q.Stdin = NilSlot \/ q.Stdout = NilSlot \/ q.Stderr = NilSlot
    THEN [pipe |-> q, mem |-> m]
    ELSE LET m2 == NewSlot(m, <<>>)
             m3 == NewSlot(m2, <<>>)
             q1 == [q EXCEPT !.Stdout = m2.made, !.Stderr = m3.made]
         IN  [pipe |-> q1, mem |-> Keep(Streams(q1), m3)]

\* faulty variant: leaves Stderr as it is
PipeNextKeepsStderr(q, m) ==
    IF q.isnil \/ q.Stdin = NilSlot \/ q.Stdout = NilSlot \/ q.Stderr = NilSlot
    THEN [pipe |-> q, mem |-> m]
    ELSE LET m1 == NewSlot(m, m.cells[q.Stdout])
             m2 == NewSlot(m1, <<>>)
             q1 == [q EXCEPT !.Stdin = m1.made, !.Stdout = m2.made]
         IN  [pipe |-> q1, mem |-> Keep(Streams(q1), m2)]

\* Pipe.Next(): Stdout becomes the next Stdin; Stdout and Stderr start empty
PipeNext(q, m) ==
    IF q.isnil \/ q.Stdin = NilSlot \/ q.Stdout = NilSlot \/ q.Stderr = NilSlot
    THEN [pipe |-> q, mem |-> m]
    ELSE LET m1 == NewSlot(m, m.cells[q.Stdout])
             m2 == NewSlot(m1, <<>>)
             m3 == NewSlot(m2, <<>>)
             q1 == [q EXCEPT !.Stdin = m1.made, !.Stdout = m2.made,
                             !.Stderr = m3.made]
         IN  [pipe |-> q1, mem |-> Keep(Streams(q1), m3)]

\* faulty variant: reads Stdin to its end and copies nothing
DrainStdinDropsInput(q, m) ==
    IF q.isnil \/ q.Stdin = NilSlot \/ q.Stdout = NilSlot THEN m
    ELSE [m EXCEPT !.cells = [@ EXCEPT ![q.Stdin] = <<>>]]

\* Pipe.DrainStdin(): io.Copy(p.Stdout, p.Stdin)
DrainStdin(q, m) ==
    IF q.isnil \/ q.Stdin = NilSlot \/ q.Stdout = NilSlot THEN m
    ELSE [m EXCEPT !.cells = [@ EXCEPT ![q.Stdout] = @ \o m.cells[q.Stdin],
                                       ![q.Stdin] = <<>>]]

\* Dest.WriteString on one stream
DestWriteString(m, s, text) == [m EXCEPT !.cells = [@ EXCEPT ![s] = @ \o text]]

\* What a step does when it is invoked, as far as its caller can tell: it
\* returns (status, err) and, before that, writes nothing ("quiet"), writes
\* its text to Stdout and to Stderr ("write"), or first drains Stdin into
\* Stdout ("drain").
StepCommands == [status : Statuses, fails : BOOLEAN, io : {"quiet", "write", "drain"}]

\* the error of step k's own making; code tells the steps' errors apart
StepErr(k) == [kind |-> "errors.New", name |-> "stop at step", code |-> k]

ErrPipelineNonZeroStatusCode(code) ==
    [kind |-> "ErrPipelineNonZeroStatusCode", name |-> "pipeline", code |-> code]

\* step(sq.Pipe) for step k behaving as c: the memory it leaves, what it
\* returns, what it wrote, what its Stdin held when it was called, and
\* whether it dereferenced a nil stream
Invoke(c, k, q, m) ==
    LET drained == IF c.io = "drain" /\ q.Stdin # NilSlot /\ q.Stdout # NilSlot
                   THEN m.cells[q.Stdin] ELSE <<>>
        m1 == IF c.io = "drain" THEN DrainStdin(q, m) ELSE m
        writes == c.io # "quiet"
        panics == writes /\ (q.Stdout = NilSlot \/ q.Stderr = NilSlot)
        m2 == IF writes /\ ~panics
              THEN DestWriteString(DestWriteString(m1, q.Stdout, <<k>>), q.Stderr, <<k>>)
              ELSE m1
    IN  [mem |-> m2,
         status |-> c.status,
         err |-> IF c.fails THEN StepErr(k) ELSE NoErr,
         out |-> IF writes THEN drained \o <<k>> ELSE <<>>,
         errout |-> IF writes THEN <<k>> ELSE <<>>,
         stdin |-> Contents(m, q.Stdin),
         panics |-> panics]

\* a nil *Sequence
NilSequence ==
    [isnil |-> TRUE, Pipe |-> NilSeqPipe, Steps |-> <<>>, Err |-> NoErr,
     StatusCode |-> 0, Controller |-> "nil"]

\* `var sequence Sequence`
EmptySequence == [NilSequence EXCEPT !.isnil = FALSE]

\* NewSequence(steps...): the steps are known by their numbers 1..n
NewSequence(n) ==
    LET a == SeqNewPipe(NoMem) IN
    [sq |-> [EmptySequence EXCEPT !.Pipe = a.pipe,
                                  !.Steps = [k \in 1..n |-> k],
                                  !.Err = NoErr,
                                  !.StatusCode = StatusOkay],
     mem |-> a.mem]

NewPipeline(n) ==
    LET a == NewSequence(n) IN
    [a EXCEPT !.sq = [@ EXCEPT !.Controller = "PipelineController"]]

NewList(n) ==
    LET a == NewSequence(n) IN
    [a EXCEPT !.sq = [@ EXCEPT !.Controller = "ListController"]]

\* the controller has not been called
Idle == [at |-> "idle", i |-> 0, kind |-> "nil"]

\* nothing has run yet
NoLeft ==
    [ids |-> <<NilSlot, NilSlot, NilSlot>>, out |-> <<>>, err |-> <<>>,
     StatusCode |-> StatusOkay, Err |-> NoErr]

\* History of one run of a controller:
\*   calls      the steps invoked, in the order of their invocation
\*   failed     the first step that returned a non-nil error (0: none), and
\*   failedRet  what it returned
\*   bad        the first step that returned a status other than StatusOkay
\*              with a nil error (0: none)
\*   ret        what the last step returned
\*   out        the contents Stdout had when the last step finished (when
\*              the controller was called, before the first step)
\*   ids        the streams the pipe had before the last Next()
\*   wroteOut, wroteErr   what the last step wrote to Stdout and to Stderr
\*   allOut, allErr       what all the steps wrote, in order
\*   plain      every step so far drained Stdin, wrote its text and
\*              returned (StatusOkay, nil)
\*   ids0, out0, err0     the pipe's streams and the contents of Stdout and
\*              Stderr when the controller was called
\*   looped     the controller got as far as its loop
\*   in1        what Stdin held when the first step was invoked
\*   runs       how many times Exec() had returned before this run
\*   left       what the run before this one left behind
NoTrace ==
    [calls |-> <<>>, failed |-> 0, failedRet |-> <<0, NoErr>>, bad |-> 0,
     ret |-> <<0, NoErr>>, out |-> <<>>, ids |-> {},
     wroteOut |-> <<>>, wroteErr |-> <<>>, allOut |-> <<>>, allErr |-> <<>>,
     plain |-> TRUE, ids0 |-> <<NilSlot, NilSlot, NilSlot>>,
     out0 |-> <<>>, err0 |-> <<>>, looped |-> FALSE,
     in1 |-> <<>>, runs |-> 0, left |-> NoLeft]

\* the history once step k, behaving as c, has returned r on pipe q
Traced(t, c, k, r, q) ==
    [t EXCEPT !.calls = Append(@, k),
              !.failed = IF @ = 0 /\ r.err # NoErr THEN k ELSE @,
              !.failedRet = IF t.failed = 0 /\ r.err # NoErr
                            THEN <<r.status, r.err>> ELSE @,
              !.bad = IF @ = 0 /\ r.status # StatusOkay /\ r.err = NoErr
                      THEN k ELSE @,
              !.ret = <<r.status, r.err>>,
              !.out = Contents(r.mem, q.Stdout),
              !.wroteOut = r.out,
              !.wroteErr = r.errout,
              !.allOut = @ \o r.out,
              !.allErr = @ \o r.errout,
              !.plain = @ /\ c.io = "drain" /\ c.status = StatusOkay /\ ~c.fails,
              !.in1 = IF t.calls = <<>> THEN r.stdin ELSE @]

----------------------------------------------------------------------------
(* The caller *)

\* the streams a caller may hand to a push: nil, a stream the pipe already
\* refers to, or a buffer of its own that the pipe has not seen
PushArgs == {NilSlot} \cup DOMAIN heap \cup {NewTextBuffer(heap)}

\* the heap once the caller's stream exists
HeapWith(x) == IF x = NilSlot \/ x \in DOMAIN heap THEN heap ELSE Alloc(heap)

\* the three stacks together hold fewer than max entries
CanPush(max) == StdinStackLen(p) + StdoutStackLen(p) + StderrStackLen(p) < max

\* NewPipe is not being watched
NoCtor == [at |-> "none", options |-> <<>>, i |-> 0, calls |-> <<>>,
           sawDefaults |-> TRUE, failed |-> 0]

\* what the caller has recorded before its first call of a method
NoCall == [op |-> "NewPipe", slot |-> NilSlot, called |-> 0,
           aliased |-> FALSE, len |-> 0, okay |-> TRUE]

Init ==
    /\ \E options \in OptionLists, isnil \in BOOLEAN :
          LET a == NewPipe(options) IN
          /\ p = IF isnil THEN NilPipe ELSE a.pipe
          /\ heap = IF isnil THEN <<>> ELSE a.heap
    /\ last = NoCall
    /\ depth = [r \in Roles |-> 0]
    /\ run = NoRun
    /\ sq = NilSequence
    /\ mem = NoMem
    /\ pc = Idle
    /\ trace = NoTrace
    /\ ctor = NoCtor

\* `var unit pipe.Pipe`: the caller holds a pipe NewPipe did not make
InitZeroPipe ==
    /\ p = ZeroPipe
    /\ heap = <<>>
    /\ last = NoCall
    /\ depth = [r \in Roles |-> 0]
    /\ run = NoRun
    /\ sq = NilSequence
    /\ mem = NoMem
    /\ pc = Idle
    /\ trace = NoTrace
    /\ ctor = NoCtor

DoDrainStdinToStdout ==
    /\ LET a == DrainStdinToStdout(p, heap) IN
       Step("DrainStdinToStdout", NilSlot, 0, a.pipe, a.heap)

\* the input is the empty string, so that the buffers stay bounded
DoSetStdinFromString ==
    /\ LET a == SetStdinFromString(p, heap, <<>>) IN
       Step("SetStdinFromString", NilSlot, 0, a.pipe, a.heap)

DoResetBuffers ==
    /\ LET a == ResetBuffers(p, heap) IN
       Step("ResetBuffers", NilSlot, 0, a.pipe, a.heap)

DoResetError ==
    /\ Step("ResetError", NilSlot, 0, ResetError(p), heap)

\* the commands run here return a result and write nothing, so that the
\* buffers stay bounded
DoRunCommand ==
    /\ \E c \in QuietCommands :
          LET a == RunCommand(p, heap, c) IN
          Step("RunCommand", NilSlot, a.called, a.pipe, a.heap)

DoSetNewStdin ==
    /\ LET a == SetNewStdin(p, heap) IN
       Step("SetNewStdin", NilSlot, 0, a.pipe, a.heap)

DoSetNewStdout ==
    /\ LET a == SetNewStdout(p, heap) IN
       Step("SetNewStdout", NilSlot, 0, a.pipe, a.heap)

DoSetNewStderr ==
    /\ LET a == SetNewStderr(p, heap) IN
       Step("SetNewStderr", NilSlot, 0, a.pipe, a.heap)

DoPushStdin(max) ==
    /\ CanPush(max)
    /\ \E x \in PushArgs :
          Step("PushStdin", x, 0, PushStdin(p, x), HeapWith(x))

DoPopStdin ==
    /\ Step("PopStdin", NilSlot, 0, PopStdin(p), heap)

DoPushStdout(max) ==
    /\ CanPush(max)
    /\ \E x \in PushArgs :
          Step("PushStdout", x, 0, PushStdout(p, x), HeapWith(x))

DoPopStdout ==
    /\ Step("PopStdout", NilSlot, 0, PopStdout(p), heap)

DoPopStdoutOnly ==
    /\ Step("PopStdoutOnly", NilSlot, 0, PopStdoutOnly(p), heap)

DoPushStderr(max) ==
    /\ CanPush(max)
    /\ \E x \in PushArgs :
          Step("PushStderr", x, 0, PushStderr(p, x), HeapWith(x))

DoPopStderr ==
    /\ Step("PopStderr", NilSlot, 0, PopStderr(p), heap)

DoPopStderrOnly ==
    /\ Step("PopStderrOnly", NilSlot, 0, PopStderrOnly(p), heap)

\* pushes, pops and fresh buffers: the redirection of the three roles
Redirect(max) ==
    \/ DoSetNewStdin
    \/ DoSetNewStdout
    \/ DoSetNewStderr
    \/ DoPushStdin(max)
    \/ DoPopStdin
    \/ DoPushStdout(max)
    \/ DoPopStdout
    \/ DoPopStdoutOnly
    \/ DoPushStderr(max)
    \/ DoPopStderr
    \/ DoPopStderrOnly

NextRedirect == Redirect(MaxDepth)

NextStackOps ==
    \/ DoRunCommand
    \/ Redirect(MaxStack)

Next ==
    \/ DoResetBuffers
    \/ DoResetError
    \/ DoRunCommand
    \/ DoDrainStdinToStdout
    \/ DoSetStdinFromString
    \/ Redirect(MaxStack)

\* every method of the pipe, in any order
Spec == Init /\ [][Next]_vars

\* a pipe on which ResetBuffers and ResetError are never called
SpecStackOps == Init /\ [][NextStackOps]_vars

\* a pipe that is only redirected, to a greater depth
SpecRedirect == Init /\ [][NextRedirect]_vars

\* every method of the pipe, in any order, on a zero-valued pipe
SpecZeroPipe == InitZeroPipe /\ [][Next]_vars

\* NewPipe(options...), statement by statement.  The caller's pipe is
\* retval; the history notes the options called, whether the first of them
\* was handed a pipe in the default state, and the first round in which an
\* option returned an error (0: none did).
OptionListsUpTo(n) == UNION {[1..k -> Options] : k \in 0..n}

\* the default state: three empty buffers, no redirections, (StatusOkay, nil)
DefaultState(q, h) ==
    /\ ~q.isnil
    /\ \A s \in {q.Stdin, q.Stdout, q.Stderr} :
          s # NilSlot /\ s \in DOMAIN h /\ h[s] = <<>>
    /\ StatusCode(q) = StatusOkay
    /\ Error(q) = NoErr
    /\ StdinStackLen(q) = 0
    /\ StdoutStackLen(q) = 0
    /\ StderrStackLen(q) = 0

InitNewPipe ==
    /\ p = ZeroPipe
    /\ heap = <<>>
    /\ last = NoCall
    /\ depth = [r \in Roles |-> 0]
    /\ run = NoRun
    /\ sq = NilSequence
    /\ mem = NoMem
    /\ pc = Idle
    /\ trace = NoTrace
    /\ \E options \in OptionListsUpTo(MaxOptions) :
          ctor = [NoCtor EXCEPT !.at = "called", !.options = options]

\* retval.ResetBuffers(); retval.ResetError()
NewPipeDefaults ==
    /\ ctor.at = "called"
    /\ LET a == ResetBuffers(p, heap) IN
       /\ p' = ResetError(a.pipe)
       /\ heap' = a.heap
    /\ ctor' = [ctor EXCEPT !.at = "loop"]
    /\ UNCHANGED <<last, depth, run, seqvars>>

\* one round of the loop: option(&retval)
NewPipeOption ==
    /\ ctor.at = "loop"
    /\ ctor.i < Len(ctor.options)
    /\ LET o == OptionAt(ctor.options, ctor.i + 1)
           a == ApplyOption(o, p, heap)
       IN  /\ p' = AfterOption(p, a)
           /\ heap' = a.heap
           /\ ctor' = [ctor EXCEPT
                  !.i = @ + 1,
                  !.calls = Append(@, o),
                  !.sawDefaults = IF ctor.i = 0 THEN DefaultState(p, heap) ELSE @,
                  !.failed = IF @ = 0 /\ a.err # NoErr THEN ctor.i + 1 ELSE @]
    /\ UNCHANGED <<last, depth, run, seqvars>>

\* return &retval; the buffers no role refers to any more are garbage
NewPipeReturn ==
    /\ ctor.at = "loop"
    /\ ctor.i = Len(ctor.options)
    /\ heap' = GC(Refs(p), heap)
    /\ ctor' = [ctor EXCEPT !.at = "returned"]
    /\ UNCHANGED <<p, last, depth, run, seqvars>>

NextNewPipe ==
    \/ NewPipeDefaults
    \/ NewPipeOption
    \/ NewPipeReturn

SpecNewPipe == InitNewPipe /\ [][NextNewPipe]_vars

TypeOK ==
    /\ p.isnil \in BOOLEAN
    /\ DOMAIN heap = Roots(p, last, run)
    /\ \A s \in DOMAIN heap : heap[s] = <<>>

----------------------------------------------------------------------------
(* The caller of a sequence, and the two controllers step by step *)

\* the contexts a controller may find:
\*   "made"   the sequence NewPipeline / NewList made
\*   "empty"  its Pipe replaced by a pipe without streams (&Pipe{})
\*   "nopipe" its Pipe set to nil
\*   "nil"    a nil *Sequence
Contexts == {"made", "empty", "nopipe", "nil"}

Controllers == {"PipelineController", "ListController"}

\* the caller's own text, written to Stdout and Stderr before Exec
CallerWrites(q, m) ==
    DestWriteString(DestWriteString(m, q.Stdout, <<0>>), q.Stderr, <<0>>)

InitSequences(kinds, contexts) ==
    /\ p = NilPipe
    /\ heap = <<>>
    /\ last = NoCall
    /\ depth = [r \in Roles |-> 0]
    /\ run = NoRun
    /\ \E kind \in kinds, ctx \in contexts, n \in 0..MaxSteps, pre \in BOOLEAN :
          LET a == IF kind = "PipelineController" THEN NewPipeline(n) ELSE NewList(n)
          IN  /\ (pre => ctx = "made")
              /\ sq = IF ctx = "nil" THEN NilSequence
                      ELSE IF ctx = "nopipe" THEN [a.sq EXCEPT !.Pipe = NilSeqPipe]
                      ELSE IF ctx = "empty" THEN [a.sq EXCEPT !.Pipe = EmptyPipe]
                      ELSE a.sq
              /\ mem = IF ctx # "made" THEN NoMem
                       ELSE IF pre THEN CallerWrites(a.sq.Pipe, a.mem)
                       ELSE a.mem
              /\ pc = [Idle EXCEPT !.kind = kind]
    /\ trace = NoTrace
    /\ ctor = NoCtor

\* Sequence.Error(): nil on a nil sequence, the recorded error otherwise
SequenceError(s) == IF s.isnil THEN NoErr ELSE s.Err

\* faulty variant: the recorded error decides, not the status code
SequenceOkayByError(s) ==
    IF s.isnil THEN <<TRUE, NoErr>> ELSE <<s.Err = NoErr, s.Err>>

\* Sequence.Okay(): (true, nil) on a nil sequence; otherwise whether the
\* status code is StatusOkay, together with the recorded error
SequenceOkay(s) ==
    IF s.isnil THEN <<TRUE, NoErr>> ELSE <<s.StatusCode = StatusOkay, s.Err>>

\* faulty variant: a nil error from a step keeps the error of an earlier step
StoreResultKeepsError(s, r) ==
    [s EXCEPT !.StatusCode = r.status,
              !.Err = IF r.err = NoErr THEN @ ELSE r.err]

\* sq.StatusCode, sq.Err = step(sq.Pipe)
StoreResult(s, r) == [s EXCEPT !.StatusCode = r.status, !.Err = r.err]

\* faulty variant: the loop goes on whatever the step returned
PipelineHaltsNever(s) == FALSE

\* faulty variant: the loop ends on a status other than StatusOkay
PipelineHaltsOnStatus(s) == s.StatusCode # StatusOkay

\* PipelineController: "we stop executing the moment something goes wrong"
PipelineHalts(s) == s.Err # NoErr

\* faulty variant: no special case
PipelineSpecialCaseMissing(s) == s

\* the special case after the loop of PipelineController
PipelineSpecialCase(s) ==
    IF s.StatusCode # StatusOkay /\ s.Err = NoErr
    THEN [s EXCEPT !.Err = ErrPipelineNonZeroStatusCode(s.StatusCode)]
    ELSE s

\* the special case after the loop of ListController
ListSpecialCase(s) ==
    IF s.StatusCode # StatusOkay /\ s.Err = NoErr
    THEN [s EXCEPT !.Err = ErrNonZeroStatusCode("list", s.StatusCode)]
    ELSE s

InitPipeline == InitSequences({"PipelineController"}, {"made"})

InitList == InitSequences({"ListController"}, {"made"})

InitControllers == InitSequences(Controllers, Contexts)

\* faulty variant: Exec() gives the sequence a new pipe with new, empty
\* streams before it calls the controller
ExecBeginResets ==
    /\ pc.at = "idle"
    /\ pc.kind \in Controllers
    /\ IF sq.isnil \/ sq.Pipe.isnil
       THEN /\ pc' = [pc EXCEPT !.at = "returned"]
            /\ trace' = trace
            /\ UNCHANGED <<sq, mem>>
       ELSE LET a == SeqNewPipe(mem)
                q == [a.pipe EXCEPT !.Err = sq.Pipe.Err,
                                    !.StatusCode = sq.Pipe.StatusCode]
            IN  /\ sq' = [sq EXCEPT !.Pipe = q]
                /\ mem' = Keep(Streams(q), a.mem)
                /\ pc' = [pc EXCEPT !.at = "loop", !.i = 1]
                /\ trace' = [trace EXCEPT
                                !.looped = TRUE,
                                !.out = <<>>,
                                !.ids = Streams(q),
                                !.ids0 = <<q.Stdin, q.Stdout, q.Stderr>>,
                                !.out0 = <<>>,
                                !.err0 = <<>>]
    /\ UNCHANGED <<pipevars, ctor>>

\* Exec() calls the controller, which returns at once without a sequence or
\* without a pipe and enters its loop otherwise
ExecBegin ==
    /\ pc.at = "idle"
    /\ pc.kind \in Controllers
    /\ IF sq.isnil \/ sq.Pipe.isnil
       THEN /\ pc' = [pc EXCEPT !.at = "returned"]
            /\ trace' = trace
       ELSE /\ pc' = [pc EXCEPT !.at = "loop", !.i = 1]
            /\ trace' = [trace EXCEPT
                            !.looped = TRUE,
                            !.out = Contents(mem, sq.Pipe.Stdout),
                            !.ids = Streams(sq.Pipe),
                            !.ids0 = <<sq.Pipe.Stdin, sq.Pipe.Stdout, sq.Pipe.Stderr>>,
                            !.out0 = Contents(mem, sq.Pipe.Stdout),
                            !.err0 = Contents(mem, sq.Pipe.Stderr)]
    /\ UNCHANGED <<sq, mem>>
    /\ UNCHANGED <<pipevars, ctor>>

\* PipelineController, top of the loop body: sq.Pipe.Next()
PipelineNext ==
    /\ pc.kind = "PipelineController"
    /\ pc.at = "loop"
    /\ pc.i <= Len(sq.Steps)
    /\ LET a == PipeNext(sq.Pipe, mem) IN
       /\ sq' = [sq EXCEPT !.Pipe = a.pipe]
       /\ mem' = a.mem
    /\ pc' = [pc EXCEPT !.at = "step"]
    /\ trace' = [trace EXCEPT !.ids = Streams(sq.Pipe)]
    /\ UNCHANGED <<pipevars, ctor>>

\* PipelineController, rest of the loop body: run the step, store what it
\* returned, and return if it returned an error
PipelineStep ==
    /\ pc.kind = "PipelineController"
    /\ pc.at = "step"
    /\ \E c \in StepCommands :
          LET k == sq.Steps[pc.i]
              r == Invoke(c, k, sq.Pipe, mem)
          IN  /\ mem' = r.mem
              /\ trace' = Traced(trace, c, k, r, sq.Pipe)
              /\ IF r.panics
                 THEN /\ sq' = sq
                      /\ pc' = [pc EXCEPT !.at = "panic"]
                 ELSE /\ sq' = StoreResult(sq, r)
                      /\ pc' = IF PipelineHalts(StoreResult(sq, r))
                               THEN [pc EXCEPT !.at = "halted"]
                               ELSE [pc EXCEPT !.at = "loop", !.i = @ + 1]
    /\ UNCHANGED <<pipevars, ctor>>

\* PipelineController, after the loop
PipelineFinish ==
    /\ pc.kind = "PipelineController"
    /\ pc.at = "loop"
    /\ pc.i > Len(sq.Steps)
    /\ sq' = PipelineSpecialCase(sq)
    /\ pc' = [pc EXCEPT !.at = "done"]
    /\ UNCHANGED <<mem, trace>>
    /\ UNCHANGED <<pipevars, ctor>>

\* faulty variant: the list returns when a step returned an error
ListStepHalting ==
    /\ pc.kind = "ListController"
    /\ pc.at = "loop"
    /\ pc.i <= Len(sq.Steps)
    /\ \E c \in StepCommands :
          LET k == sq.Steps[pc.i]
              r == Invoke(c, k, sq.Pipe, mem)
          IN  /\ mem' = r.mem
              /\ trace' = Traced(trace, c, k, r, sq.Pipe)
              /\ sq' = StoreResult(sq, r)
              /\ pc' = IF r.err # NoErr
                       THEN [pc EXCEPT !.at = "halted"]
                       ELSE [pc EXCEPT !.i = @ + 1]
    /\ UNCHANGED <<pipevars, ctor>>

\* faulty variant: the list calls Next() before each step
ListStepRotating ==
    /\ pc.kind = "ListController"
    /\ pc.at = "loop"
    /\ pc.i <= Len(sq.Steps)
    /\ \E c \in StepCommands :
          LET k == sq.Steps[pc.i]
              a == PipeNext(sq.Pipe, mem)
              r == Invoke(c, k, a.pipe, a.mem)
          IN  /\ mem' = r.mem
              /\ trace' = Traced(trace, c, k, r, a.pipe)
              /\ sq' = StoreResult([sq EXCEPT !.Pipe = a.pipe], r)
              /\ pc' = [pc EXCEPT !.i = @ + 1]
    /\ UNCHANGED <<pipevars, ctor>>

\* faulty variant: the loop passes over the step after the one it has run
ListStepSkipping ==
    /\ pc.kind = "ListController"
    /\ pc.at = "loop"
    /\ pc.i <= Len(sq.Steps)
    /\ \E c \in StepCommands :
          LET k == sq.Steps[pc.i]
              r == Invoke(c, k, sq.Pipe, mem)
          IN  /\ mem' = r.mem
              /\ trace' = Traced(trace, c, k, r, sq.Pipe)
              /\ IF r.panics
                 THEN /\ sq' = sq
                      /\ pc' = [pc EXCEPT !.at = "panic"]
                 ELSE /\ sq' = StoreResult(sq, r)
                      /\ pc' = [pc EXCEPT !.i = @ + 2]
    /\ UNCHANGED <<pipevars, ctor>>

\* ListController, the loop body: run the step and store what it returned
ListStep ==
    /\ pc.kind = "ListController"
    /\ pc.at = "loop"
    /\ pc.i <= Len(sq.Steps)
    /\ \E c \in StepCommands :
          LET k == sq.Steps[pc.i]
              r == Invoke(c, k, sq.Pipe, mem)
          IN  /\ mem' = r.mem
              /\ trace' = Traced(trace, c, k, r, sq.Pipe)
              /\ IF r.panics
                 THEN /\ sq' = sq
                      /\ pc' = [pc EXCEPT !.at = "panic"]
                 ELSE /\ sq' = StoreResult(sq, r)
                      /\ pc' = [pc EXCEPT !.i = @ + 1]
    /\ UNCHANGED <<pipevars, ctor>>

\* ListController, after the loop
ListFinish ==
    /\ pc.kind = "ListController"
    /\ pc.at = "loop"
    /\ pc.i > Len(sq.Steps)
    /\ sq' = ListSpecialCase(sq)
    /\ pc' = [pc EXCEPT !.at = "done"]
    /\ UNCHANGED <<mem, trace>>
    /\ UNCHANGED <<pipevars, ctor>>

NextPipeline ==
    \/ ExecBegin
    \/ PipelineNext
    \/ PipelineStep
    \/ PipelineFinish

NextList ==
    \/ ExecBegin
    \/ ListStep
    \/ ListFinish

NextControllers ==
    \/ ExecBegin
    \/ PipelineNext
    \/ PipelineStep
    \/ PipelineFinish
    \/ ListStep
    \/ ListFinish

\* a pipeline made by NewPipeline, executed once
SpecPipeline == InitPipeline /\ [][NextPipeline]_vars

\* a list made by NewList, executed once
SpecList == InitList /\ [][NextList]_vars

\* either controller, called on whatever context the caller has
SpecControllers == InitControllers /\ [][NextControllers]_vars

\* Exec() is a call on the caller's own thread: the controller goes on from
\* one statement to the next for as long as it has one to go on to
SpecControllersFair ==
    InitControllers /\ [][NextControllers]_vars /\ WF_vars(NextControllers)

\* how many times the caller calls Exec() on one sequence
MaxRuns == 2

\* the longest sequence the caller executes more than once
MaxRepeatSteps == 2

InitRepeat == InitSequences(Controllers, {"made"})

\* the caller calls Exec() on a sequence that Exec() has returned from; the
\* caller notes what the sequence and its pipe hold at that moment
ExecAgain ==
    /\ pc.at \in {"returned", "done", "halted"}
    /\ trace.runs + 1 < MaxRuns
    /\ Len(sq.Steps) <= MaxRepeatSteps
    /\ pc' = [pc EXCEPT !.at = "idle", !.i = 0]
    /\ trace' = [NoTrace EXCEPT
                    !.runs = trace.runs + 1,
                    !.left = [ids |-> <<sq.Pipe.Stdin, sq.Pipe.Stdout, sq.Pipe.Stderr>>,
                              out |-> Contents(mem, sq.Pipe.Stdout),
                              err |-> Contents(mem, sq.Pipe.Stderr),
                              StatusCode |-> sq.StatusCode,
                              Err |-> sq.Err]]
    /\ UNCHANGED <<sq, mem>>
    /\ UNCHANGED <<pipevars, ctor>>

NextRepeat ==
    \/ ExecBegin
    \/ PipelineNext
    \/ PipelineStep
    \/ PipelineFinish
    \/ ListStep
    \/ ListFinish
    \/ ExecAgain

\* a pipeline or a list made by NewPipeline or NewList, executed up to
\* MaxRuns times
SpecRepeat == InitRepeat /\ [][NextRepeat]_vars

\* the pipe refers to live streams only, and nothing else is kept
SeqTypeOK ==
    /\ pc.at \in {"idle", "returned", "loop", "step", "halted", "done", "panic"}
    /\ DOMAIN mem.cells = (IF sq.isnil THEN {} ELSE Streams(sq.Pipe))
    /\ Len(trace.calls) <= MaxSteps

----------------------------------------------------------------------------
(* Properties.  Those written with the methods themselves say what a call  *)
(* made in the current state would leave; they are checked in every        *)
(* reachable state, for every argument the caller could pass.  Those       *)
(* written with the history say what the calls that were made have left.   *)

\* C1. Aliased push: wherever Stdout and Stderr are the identical slot,
\* PushStdout(X) leaves both Stdout and Stderr equal to X, and PushStderr(X)
\* leaves both Stderr and Stdout equal to X, for every slot X.
AliasedPushSetsBothRoles ==
    Aliased(p) =>
        \A x \in PushArgs :
            /\ PushStdout(p, x).Stdout = x
            /\ PushStdout(p, x).Stderr = x
            /\ PushStderr(p, x).Stderr = x
            /\ PushStderr(p, x).Stdout = x

\* PushStdout has just been called with a new buffer on a pipe whose output
\* roles were one stream, and both roles now are that buffer
AliasedPushHappened ==
    /\ last.op = "PushStdout"
    /\ last.aliased
    /\ last.slot # NilSlot
    /\ Top(p.stdoutStack) # last.slot
    /\ p.Stdout = last.slot
    /\ p.Stderr = last.slot

\* C2. Aliased paired pop: wherever Stdout and Stderr are the identical
\* slot S, PushStdout(X) followed by PopStdout, and PushStderr(X) followed
\* by PopStderr, leave both Stdout and Stderr equal to S, for every slot X.
AliasedPairedPopRestoresBothRoles ==
    Aliased(p) =>
        \A x \in PushArgs :
            /\ PopStdout(PushStdout(p, x)).Stdout = p.Stdout
            /\ PopStdout(PushStdout(p, x)).Stderr = p.Stdout
            /\ PopStderr(PushStderr(p, x)).Stderr = p.Stderr
            /\ PopStderr(PushStderr(p, x)).Stdout = p.Stderr

\* PopStdout has just followed a PushStdout that was made while the output
\* roles were one stream S, and both roles are S again
AliasedPairedPopHappened ==
    /\ last.op = "PopStdout"
    /\ last.aliased
    /\ run.role = "Stdout"
    /\ run.aliased
    /\ run.n = 1
    /\ run.pops = 1
    /\ run.snaps[1] # NilSlot
    /\ p.Stdout = run.snaps[1]
    /\ p.Stderr = run.snaps[1]

\* C3. Only-variant pop: PopStdoutOnly restores Stdout from the top of its
\* stack and never changes Stderr, PopStderrOnly restores Stderr and never
\* changes Stdout, also when the two roles are the identical slot; so with
\* Stdout == Stderr == S, PushStdout(X) then PopStdoutOnly ends with
\* Stdout == S and Stderr == X.
PopOnlyLeavesOtherRole ==
    /\ PopStdoutOnly(p).Stderr = p.Stderr
    /\ PopStdoutOnly(p).stderrStack = p.stderrStack
    /\ StdoutStackLen(p) > 0 => PopStdoutOnly(p).Stdout = Top(p.stdoutStack)
    /\ PopStderrOnly(p).Stdout = p.Stdout
    /\ PopStderrOnly(p).stdoutStack = p.stdoutStack
    /\ StderrStackLen(p) > 0 => PopStderrOnly(p).Stderr = Top(p.stderrStack)
    /\ Aliased(p) =>
          \A x \in PushArgs :
              /\ PopStdoutOnly(PushStdout(p, x)).Stdout = p.Stdout
              /\ PopStdoutOnly(PushStdout(p, x)).Stderr = x
              /\ PopStderrOnly(PushStderr(p, x)).Stderr = p.Stderr
              /\ PopStderrOnly(PushStderr(p, x)).Stdout = x

\* PopStdoutOnly has just followed a PushStdout that was made while the
\* output roles were one stream S: Stdout is S again, Stderr is not
PopOnlyHappened ==
    /\ last.op = "PopStdoutOnly"
    /\ last.aliased
    /\ run.role = "Stdout"
    /\ run.aliased
    /\ run.n = 1
    /\ run.pops = 1
    /\ p.Stdout = run.snaps[1]
    /\ p.Stderr # p.Stdout
    /\ p.Stderr # NilSlot

\* C4. Independence of distinct roles: wherever Stdout and Stderr are
\* distinct slots (two separately created empty buffers included), a push or
\* a pop on one output role leaves the other role's active slot and the
\* other role's stack unchanged: identity decides, never equal contents.
DistinctRolesAreIndependent ==
    (~p.isnil /\ p.Stdout # p.Stderr) =>
        /\ \A x \in PushArgs :
              /\ PushStdout(p, x).Stderr = p.Stderr
              /\ PushStdout(p, x).stderrStack = p.stderrStack
              /\ PushStderr(p, x).Stdout = p.Stdout
              /\ PushStderr(p, x).stdoutStack = p.stdoutStack
        /\ PopStdout(p).Stderr = p.Stderr
        /\ PopStdout(p).stderrStack = p.stderrStack
        /\ PopStdoutOnly(p).Stderr = p.Stderr
        /\ PopStdoutOnly(p).stderrStack = p.stderrStack
        /\ PopStderr(p).Stdout = p.Stdout
        /\ PopStderr(p).stdoutStack = p.stdoutStack
        /\ PopStderrOnly(p).Stdout = p.Stdout
        /\ PopStderrOnly(p).stdoutStack = p.stdoutStack

\* PushStderr has just been called on a pipe whose output roles were two
\* buffers, and Stdout still is a buffer of its own whose contents equal
\* those of Stderr
DistinctPushHappened ==
    /\ last.op = "PushStderr"
    /\ ~last.aliased
    /\ ~p.isnil
    /\ p.Stdout # NilSlot
    /\ p.Stderr # NilSlot
    /\ p.Stdout # p.Stderr
    /\ heap[p.Stdout] = heap[p.Stderr]
    /\ p.stdoutStack = <<>>

\* C5. Round trip, last in first out: for each role R, N pushes on R
\* followed by N pops on R leave R's stack as long as it was before the
\* first push (0 when it was empty) and R equal to the slot it held before
\* the first push; the k-th pop restores the slot that was active just
\* before the (N-k+1)-th push.
RoundTripIsLifo ==
    run.role \in Roles =>
        /\ StackLen(p, run.role) = run.base + run.n - run.pops
        /\ run.pops > 0 =>
              Active(p, run.role) = run.snaps[run.n - run.pops + 1]
        /\ (run.pops = run.n /\ run.base = 0) => StackLen(p, run.role) = 0

\* two pushes on Stdin and then two pops have just been made, on a stack
\* that was empty, and Stdin is the slot it was before the first push
RoundTripHappened ==
    /\ run.role = "Stdin"
    /\ run.n = 2
    /\ run.pops = 2
    /\ run.base = 0
    /\ last.op = "PopStdin"
    /\ last.len = 1
    /\ StdinStackLen(p) = 0
    /\ p.Stdin = run.snaps[1]
    /\ p.Stdin # NilSlot

PopOnEmptyStackIsNoOp ==
    /\ StdinStackLen(p) = 0 => PopStdin(p) = p
    /\ StdoutStackLen(p) = 0 => (PopStdout(p) = p /\ PopStdoutOnly(p) = p)
    /\ StderrStackLen(p) = 0 => (PopStderr(p) = p /\ PopStderrOnly(p) = p)

\* PopStderr has just found its stack empty on a pipe that holds an error
\* and has an entry on another stack
PopOnEmptyStackHappened ==
    /\ last.op = "PopStderr"
    /\ last.len = 0
    /\ ~p.isnil
    /\ p.err # NoErr
    /\ p.statusCode # StatusOkay
    /\ StdoutStackLen(p) = 1
    /\ StderrStackLen(p) = 0

\* C8. Status/error coupling: for every command that returns (status, nil)
\* with status != StatusOkay, after RunCommand on a pipe with non-nil Stdin
\* and Stdout, StatusCode() is that status and Error() is a non-nil
\* ErrNonZeroStatusCode carrying that status.
NonZeroStatusGetsAnError ==
    Usable(p) =>
        \A c \in Commands :
            (c.status # StatusOkay /\ c.err = NoErr) =>
                LET q == RunCommand(p, heap, c).pipe IN
                /\ StatusCode(q) = c.status
                /\ Error(q) # NoErr
                /\ Error(q).kind = "ErrNonZeroStatusCode"
                /\ Error(q).code = c.status

\* RunCommand has just run a command that returned (2, nil)
NonZeroStatusHappened ==
    /\ last.op = "RunCommand"
    /\ last.called = 1
    /\ StatusCode(p) = 2
    /\ Error(p) = ErrNonZeroStatusCode("command", 2)

\* the error a caller expects to find after a command returned (status, err)
ExpectedError(c) ==
    IF c.err # NoErr THEN c.err
    ELSE IF c.status # StatusOkay THEN ErrNonZeroStatusCode("command", c.status)
    ELSE NoErr

\* C9. Last command wins: after any sequence of RunCommand calls on a
\* usable pipe, StatusError() is the status of the last command run and
\* that command's error (the synthesized one when it returned a non-zero
\* status with a nil error): (StatusOkay, nil) clears what an earlier
\* failing command left, and a command's own error is stored unchanged.
LastCommandWins ==
    Usable(p) =>
        \A c \in Commands :
            StatusError(RunCommand(p, heap, c).pipe) = <<c.status, ExpectedError(c)>>

\* RunCommand has just run a command that returned (StatusOkay, nil) on a
\* pipe that held the error of an earlier command
LastCommandClearedError ==
    /\ last.op = "RunCommand"
    /\ last.called = 1
    /\ ~last.okay
    /\ StatusError(p) = <<StatusOkay, NoErr>>

\* C10. RunCommand precondition: when the pipe is nil, or its Stdin is nil,
\* or its Stdout is nil, RunCommand does not invoke the command and leaves
\* the status code, the error, the streams and the stacks unchanged; and
\* RunCommand itself never replaces Stdin, Stdout or Stderr.
RunCommandNeedsStdinAndStdout ==
    \A c \in Commands :
        LET a == RunCommand(p, heap, c) IN
        /\ ~Usable(p) => (a.called = 0 /\ a.pipe = p /\ a.heap = heap)
        /\ a.pipe.Stdin = p.Stdin
        /\ a.pipe.Stdout = p.Stdout
        /\ a.pipe.Stderr = p.Stderr
        /\ a.pipe.stdinStack = p.stdinStack
        /\ a.pipe.stdoutStack = p.stdoutStack
        /\ a.pipe.stderrStack = p.stderrStack

\* RunCommand has just been called on a pipe whose Stdout is nil, and did
\* not invoke the command
RunCommandRefused ==
    /\ last.op = "RunCommand"
    /\ last.called = 0
    /\ ~p.isnil
    /\ p.Stdin # NilSlot
    /\ p.Stdout = NilSlot

\* the steps 1..n, in insertion order
FirstSteps(n) == [k \in 1..n |-> k]

\* C11. Pipeline halts on error: once step i is the first step to have
\* returned a non-nil error, the steps invoked are 1..i and no other, the
\* controller has returned, and the sequence's error and status are the
\* ones step i returned.
PipelineHaltsOnError ==
    trace.failed # 0 =>
        /\ trace.calls = FirstSteps(trace.failed)
        /\ pc.at = "halted"
        /\ sq.Err = StepErr(trace.failed)
        /\ <<sq.StatusCode, sq.Err>> = trace.failedRet

\* the second of three steps returned an error after the first had returned
\* a status other than StatusOkay: the pipeline has halted with the third
\* step not invoked
PipelineHaltedAtSecondStep ==
    /\ pc.kind = "PipelineController"
    /\ pc.at = "halted"
    /\ Len(sq.Steps) = 3
    /\ trace.failed = 2
    /\ trace.bad = 1
    /\ trace.calls = <<1, 2>>
    /\ sq.Err = StepErr(2)

\* C12. Pipeline stops at the first failure: once a step has returned a
\* status other than StatusOkay with a nil error, no later step is invoked,
\* and when Exec is over the sequence's error is non-nil.
PipelineStopsAtFirstFailure ==
    (pc.kind = "PipelineController" /\ trace.bad # 0) =>
        /\ trace.calls = FirstSteps(trace.bad)
        /\ pc.at \in {"halted", "done"} => sq.Err # NoErr

\* C13. Pipeline rotation: when a step of a pipeline is about to run, Stdin
\* holds the contents Stdout had when the previous step finished (when Exec
\* began, for the first step), and Stdout and Stderr are empty streams that
\* the pipe did not have before.
PipelineRotates ==
    pc.at = "step" =>
        /\ Contents(mem, sq.Pipe.Stdin) = trace.out
        /\ sq.Pipe.Stdout \in DOMAIN mem.cells
        /\ sq.Pipe.Stderr \in DOMAIN mem.cells
        /\ mem.cells[sq.Pipe.Stdout] = <<>>
        /\ mem.cells[sq.Pipe.Stderr] = <<>>
        /\ Cardinality(Streams(sq.Pipe)) = 3
        /\ Streams(sq.Pipe) \cap trace.ids = {}

\* the second step is about to run after a first step that wrote to Stdout
\* and to Stderr
RotatedAfterAWritingStep ==
    /\ pc.kind = "PipelineController"
    /\ pc.at = "step"
    /\ pc.i = 2
    /\ trace.wroteErr = <<1>>
    /\ trace.out = <<0, 1>>
    /\ Contents(mem, sq.Pipe.Stdin) = <<0, 1>>

\* C14. Halted pipeline output: when a pipeline has halted at step i,
\* Stdout holds what step i wrote to Stdout and nothing else, and Stderr
\* holds what step i wrote to Stderr and nothing else.
HaltedPipelineKeepsOnlyFailingStepOutput ==
    pc.at = "halted" =>
        /\ Contents(mem, sq.Pipe.Stdout) = trace.wroteOut
        /\ Contents(mem, sq.Pipe.Stderr) = trace.wroteErr

\* the pipeline halted at its second step, which wrote its text without
\* reading Stdin, after a first step that had written too
HaltedAfterTwoWritingSteps ==
    /\ pc.kind = "PipelineController"
    /\ pc.at = "halted"
    /\ trace.failed = 2
    /\ trace.allOut = <<1, 2>>
    /\ trace.allErr = <<1, 2>>
    /\ Contents(mem, sq.Pipe.Stdout) = <<2>>
    /\ Contents(mem, sq.Pipe.Stderr) = <<2>>

\* C15. Pipeline data flow end to end: when every step of a pipeline drains
\* Stdin into Stdout, appends its own text and returns (StatusOkay, nil),
\* Stdout ends as what it held when Exec began followed by the steps' texts
\* in step order, and the sequence ends with StatusOkay and a nil error.
PipelineDataFlowsEndToEnd ==
    (pc.kind = "PipelineController" /\ pc.at = "done" /\ trace.plain) =>
        /\ Contents(mem, sq.Pipe.Stdout) = trace.out0 \o FirstSteps(Len(sq.Steps))
        /\ sq.StatusCode = StatusOkay
        /\ sq.Err = NoErr

\* a pipeline of two such steps, begun with empty streams, is over
TwoStepPipelineDone ==
    /\ pc.kind = "PipelineController"
    /\ pc.at = "done"
    /\ trace.plain
    /\ trace.out0 = <<>>
    /\ Len(sq.Steps) = 2
    /\ trace.calls = <<1, 2>>
    /\ Contents(mem, sq.Pipe.Stdout) = <<1, 2>>

\* C16. List never stops early: a list invokes its steps in insertion
\* order, each once, whatever they return; it never returns from inside its
\* loop, and when Exec is over every step has been invoked.
ListRunsEveryStep ==
    /\ trace.calls = FirstSteps(Len(trace.calls))
    /\ pc.at # "halted"
    /\ pc.at = "loop" => Len(trace.calls) = pc.i - 1
    /\ pc.at = "done" => trace.calls = sq.Steps

\* a list of three steps is over; its first step returned an error and its
\* second a status other than StatusOkay
ListRanPastFailures ==
    /\ pc.kind = "ListController"
    /\ pc.at = "done"
    /\ trace.failed = 1
    /\ trace.bad = 2
    /\ trace.calls = <<1, 2, 3>>

\* the error a list ends with when its last step returned (status, err)
ListExpectedError(status, err) ==
    IF err # NoErr THEN err
    ELSE IF status # StatusOkay THEN ErrNonZeroStatusCode("list", status)
    ELSE NoErr

\* C17. List final outcome: when a list of at least one step is over, its
\* status is the status the last step returned and its error the error the
\* last step returned (the synthesized one for a status other than
\* StatusOkay with a nil error); after (StatusOkay, nil) from the last step
\* they are StatusOkay and nil whatever earlier steps returned.
ListEndsWithLastStepOutcome ==
    (pc.kind = "ListController" /\ pc.at = "done" /\ Len(sq.Steps) >= 1) =>
        /\ sq.StatusCode = trace.ret[1]
        /\ sq.Err = ListExpectedError(trace.ret[1], trace.ret[2])
        /\ trace.ret = <<StatusOkay, NoErr>> =>
              (sq.StatusCode = StatusOkay /\ sq.Err = NoErr)

\* a list of two steps is over: the first returned an error, the last
\* (StatusOkay, nil)
ListForgotEarlierFailure ==
    /\ pc.kind = "ListController"
    /\ pc.at = "done"
    /\ Len(sq.Steps) = 2
    /\ trace.failed = 1
    /\ trace.ret = <<StatusOkay, NoErr>>
    /\ sq.StatusCode = StatusOkay
    /\ sq.Err = NoErr

\* C18. List does not rotate: from the call of the controller on, the pipe
\* of a list has the three streams it had at the call, and when Exec is
\* over Stdout and Stderr hold what they held at the call followed by what
\* the steps wrote, in step order.
ListKeepsItsStreams ==
    (pc.kind = "ListController" /\ pc.at # "idle") =>
        /\ <<sq.Pipe.Stdin, sq.Pipe.Stdout, sq.Pipe.Stderr>> = trace.ids0
        /\ pc.at = "done" =>
              /\ Contents(mem, sq.Pipe.Stdout) = trace.out0 \o trace.allOut
              /\ Contents(mem, sq.Pipe.Stderr) = trace.err0 \o trace.allErr

\* a list is over whose first and second step wrote, after the caller had
\* written too
ListAccumulatedOutput ==
    /\ pc.kind = "ListController"
    /\ pc.at = "done"
    /\ trace.err0 = <<0>>
    /\ trace.allErr = <<1, 2>>
    /\ Contents(mem, sq.Pipe.Stderr) = <<0, 1, 2>>
    /\ Contents(mem, sq.Pipe.Stdout) = <<0, 1, 2>>

\* C19. Controller-level synthesized error: when a list or a pipeline has
\* finished its loop with a nil error from the last step, the sequence's
\* error is a non-nil non-zero-status error carrying the final status if
\* that status is not StatusOkay, and nil if it is StatusOkay.
ControllerSynthesizesError ==
    (pc.at = "done" /\ trace.ret[2] = NoErr) =>
        /\ sq.StatusCode = trace.ret[1]
        /\ IF sq.StatusCode # StatusOkay
           THEN /\ sq.Err # NoErr
                /\ sq.Err.kind \in {"ErrNonZeroStatusCode", "ErrPipelineNonZeroStatusCode"}
                /\ sq.Err.code = sq.StatusCode
           ELSE sq.Err = NoErr

\* a pipeline is over whose last step returned (2, nil)
PipelineSynthesizedError ==
    /\ pc.kind = "PipelineController"
    /\ pc.at = "done"
    /\ Len(trace.calls) >= 1
    /\ trace.ret = <<2, NoErr>>
    /\ sq.Err = ErrPipelineNonZeroStatusCode(2)

\* C20. Controller no-op on an unusable context: with a nil sequence, a nil
\* pipe, or a pipe without Stdin or without Stdout, neither controller
\* invokes a step, and the status stays StatusOkay and the error nil.
ControllerNoOpOnUnusableContext ==
    (sq.isnil \/ sq.Pipe.isnil \/ sq.Pipe.Stdin = NilSlot \/ sq.Pipe.Stdout = NilSlot) =>
        /\ trace.calls = <<>>
        /\ sq.StatusCode = StatusOkay
        /\ sq.Err = NoErr

\* C21. Default state: the pipe NewPipe() returns when it is given no
\* options is non-nil, has a non-nil, empty Stdin, Stdout and Stderr,
\* StatusCode() == StatusOkay, Error() == nil, and all three StackLens are 0.
NewPipeStartsInDefaultState ==
    (ctor.at = "returned" /\ ctor.options = <<>>) => DefaultState(p, heap)

\* NewPipe() has returned a pipe whose three roles are buffers of their own
NewPipeWithoutOptionsReturned ==
    /\ ctor.at = "returned"
    /\ ctor.options = <<>>
    /\ ctor.calls = <<>>
    /\ Cardinality({p.Stdin, p.Stdout, p.Stderr} \ {NilSlot}) = 3

\* C22. Nil-receiver safety: on a nil *Pipe every method returns without
\* effect (the pipe, the heap and the caller's streams are as before, and
\* RunCommand does not invoke the command), and the getters return the
\* defaults: Error() == nil, Okay() == true, StatusCode() == StatusOkay,
\* StatusError() == (StatusOkay, nil), every StackLen == 0.
NilReceiverIsSafe ==
    p.isnil =>
        /\ DrainStdinToStdout(p, heap) = [pipe |-> p, heap |-> heap]
        /\ ResetBuffers(p, heap) = [pipe |-> p, heap |-> heap]
        /\ ResetError(p) = p
        /\ \A c \in Commands :
              RunCommand(p, heap, c) = [pipe |-> p, heap |-> heap, called |-> 0]
        /\ SetNewStdin(p, heap) = [pipe |-> p, heap |-> heap]
        /\ SetNewStdout(p, heap) = [pipe |-> p, heap |-> heap]
        /\ SetNewStderr(p, heap) = [pipe |-> p, heap |-> heap]
        /\ \A t \in Texts :
              SetStdinFromString(p, heap, <<t>>) = [pipe |-> p, heap |-> heap]
        /\ \A x \in PushArgs :
              /\ PushStdin(p, x) = p
              /\ PushStdout(p, x) = p
              /\ PushStderr(p, x) = p
        /\ PopStdin(p) = p
        /\ PopStdout(p) = p
        /\ PopStdoutOnly(p) = p
        /\ PopStderr(p) = p
        /\ PopStderrOnly(p) = p
        /\ Error(p) = NoErr
        /\ Okay(p)
        /\ StatusCode(p) = StatusOkay
        /\ StatusError(p) = <<StatusOkay, NoErr>>
        /\ StdinStackLen(p) = 0
        /\ StdoutStackLen(p) = 0
        /\ StderrStackLen(p) = 0

\* PushStdin has just been called on a nil pipe with a buffer of the
\* caller's, and the pipe is the nil pipe still
NilPipeCalled ==
    /\ p = NilPipe
    /\ last.op = "PushStdin"
    /\ last.slot # NilSlot
    /\ last.slot \in DOMAIN heap

\* what a caller can observe of a pipe: the three exported roles, the three
\* StackLens, StatusCode() and Error()
Observable(q) ==
    [Stdin |-> q.Stdin, Stdout |-> q.Stdout, Stderr |-> q.Stderr,
     stdinStackLen |-> StdinStackLen(q),
     stdoutStackLen |-> StdoutStackLen(q),
     stderrStackLen |-> StderrStackLen(q),
     statusCode |-> StatusCode(q), err |-> Error(q)]

LastRound(options, names) ==
    LET rounds == {k \in 1..Len(options) : options[k].name \in names} IN
    IF rounds = {} THEN 0
    ELSE CHOOSE k \in rounds : \A j \in rounds : j <= k

OptionErrorStopsNewPipe ==
    (ctor.at = "returned" /\ ctor.failed > 0) =>
        /\ Error(p) = OptionErr
        /\ ctor.calls = SubSeq(ctor.options, 1, ctor.failed)

\* C26. ResetBuffers: from any state of a non-nil pipe (the output roles on
\* one stream and non-empty stacks included) ResetBuffers leaves Stdin,
\* Stdout and Stderr as three new, empty, pairwise distinct buffers and all
\* three stacks empty, and leaves the status code and the error unchanged.
ResetBuffersGivesNewEmptyStreams ==
    ~p.isnil =>
        LET a == ResetBuffers(p, heap)
            q == a.pipe
        IN  /\ \A s \in {q.Stdin, q.Stdout, q.Stderr} :
                  /\ s # NilSlot
                  /\ s \notin DOMAIN heap
                  /\ s \notin Refs(p)
                  /\ a.heap[s] = <<>>
            /\ q.Stdin # q.Stdout
            /\ q.Stdin # q.Stderr
            /\ q.Stdout # q.Stderr
            /\ StdinStackLen(q) = 0
            /\ StdoutStackLen(q) = 0
            /\ StderrStackLen(q) = 0
            /\ StatusError(q) = StatusError(p)

\* ResetBuffers has just been called on a pipe that held an error, had its
\* output roles on one stream and an entry on a stack
ResetBuffersHappened ==
    /\ last.op = "ResetBuffers"
    /\ last.aliased
    /\ last.len > 0
    /\ ~p.isnil
    /\ Error(p) # NoErr
    /\ Cardinality({p.Stdin, p.Stdout, p.Stderr} \ {NilSlot}) = 3
    /\ StdinStackLen(p) + StdoutStackLen(p) + StderrStackLen(p) = 0

\* C27. ResetError: from any state of a non-nil pipe ResetError sets the
\* status code to StatusOkay and the error to nil, and leaves the three
\* active slots and the three stacks unchanged.
ResetErrorClearsStatusAndError ==
    ~p.isnil =>
        LET q == ResetError(p) IN
        /\ StatusCode(q) = StatusOkay
        /\ Error(q) = NoErr
        /\ Okay(q)
        /\ q.Stdin = p.Stdin
        /\ q.Stdout = p.Stdout
        /\ q.Stderr = p.Stderr
        /\ q.stdinStack = p.stdinStack
        /\ q.stdoutStack = p.stdoutStack
        /\ q.stderrStack = p.stderrStack

\* ResetError has just been called on a pipe that held an error and has an
\* entry on a stack
ResetErrorHappened ==
    /\ last.op = "ResetError"
    /\ ~last.okay
    /\ ~p.isnil
    /\ StatusError(p) = <<StatusOkay, NoErr>>
    /\ StdinStackLen(p) + StdoutStackLen(p) + StderrStackLen(p) > 0

\* C28. PopStdout reverses the last PushStdout: in every reachable state and
\* for every slot X (the slot Stderr holds included), PushStdout(X) followed
\* at once by PopStdout leaves Stdout, Stderr, the Stdout stack and the
\* Stderr stack as they were before the push; and the same for PushStderr(X)
\* followed by PopStderr.
PopReversesLastPush ==
    \A x \in PushArgs :
        LET q == PopStdout(PushStdout(p, x))
            r == PopStderr(PushStderr(p, x))
        IN  /\ q.Stdout = p.Stdout
            /\ q.Stderr = p.Stderr
            /\ q.stdoutStack = p.stdoutStack
            /\ q.stderrStack = p.stderrStack
            /\ r.Stdout = p.Stdout
            /\ r.Stderr = p.Stderr
            /\ r.stdoutStack = p.stdoutStack
            /\ r.stderrStack = p.stderrStack

\* C29. Nested redirection of both output roles: from every state (output
\* roles on one stream or on two) and for all slots X1, X2 (X1 == X2
\* included), PushStdout(X1); PushStderr(X2); PopStderr; PopStdout leaves
\* Stdout and Stderr equal to the slots they held at first and both stacks
\* with their contents at first.
NestedRedirectionRestores ==
    \A x1 \in PushArgs, x2 \in PushArgs :
        LET q == PopStdout(PopStderr(PushStderr(PushStdout(p, x1), x2))) IN
        /\ q.Stdout = p.Stdout
        /\ q.Stderr = p.Stderr
        /\ q.stdoutStack = p.stdoutStack
        /\ q.stderrStack = p.stderrStack

\* the paired pushes and pops of the output roles
PairedOutputOps == {"PushStdout", "PushStderr", "PopStdout", "PopStderr"}

\* C30. Alias preservation over sequences: once Stdout and Stderr are the
\* identical slot, every PushStdout, PushStderr, PopStdout and PopStderr
\* (any slot, any order, pops on an empty stack included) leaves them the
\* identical slot, so they still are after any sequence of these.
AliasSurvivesPairedPushesAndPops ==
    [][(Aliased(p) /\ last'.op \in PairedOutputOps) => Aliased(p')]_vars

\* PopStderr has just taken the one entry off the Stderr stack while the
\* output roles were one stream and the Stdout stack held an entry too, and
\* the output roles are one stream still
AliasSurvivedNestedRedirection ==
    /\ Aliased(p)
    /\ last.op = "PopStderr"
    /\ last.aliased
    /\ last.len = 1
    /\ StdoutStackLen(p) = 1
    /\ StderrStackLen(p) = 0
    /\ p.Stdout # NilSlot

\* C31. No duplicate stack entries under aliasing: a push on an output role,
\* also when Stdout and Stderr are the identical slot, appends exactly one
\* entry, the slot the role held, to that role's own stack and leaves the
\* other output role's stack and the Stdin stack unchanged; a paired pop
\* takes an entry off its own role's stack only.
PushAndPopTouchOwnStackOnly ==
    ~p.isnil =>
        /\ \A x \in PushArgs :
              /\ PushStdout(p, x).stdoutStack = Append(p.stdoutStack, p.Stdout)
              /\ PushStdout(p, x).stderrStack = p.stderrStack
              /\ PushStdout(p, x).stdinStack = p.stdinStack
              /\ PushStderr(p, x).stderrStack = Append(p.stderrStack, p.Stderr)
              /\ PushStderr(p, x).stdoutStack = p.stdoutStack
              /\ PushStderr(p, x).stdinStack = p.stdinStack
        /\ PopStdout(p).stdoutStack =
              IF StdoutStackLen(p) = 0 THEN p.stdoutStack ELSE Pop(p.stdoutStack)
        /\ PopStdout(p).stderrStack = p.stderrStack
        /\ PopStdout(p).stdinStack = p.stdinStack
        /\ PopStderr(p).stderrStack =
              IF StderrStackLen(p) = 0 THEN p.stderrStack ELSE Pop(p.stderrStack)
        /\ PopStderr(p).stdoutStack = p.stdoutStack
        /\ PopStderr(p).stdinStack = p.stdinStack

\* PushStderr has just been called while the output roles were one stream:
\* both roles are the new buffer, the Stderr stack holds one entry and the
\* Stdout stack none
AliasedPushLeftOneEntry ==
    /\ last.op = "PushStderr"
    /\ last.aliased
    /\ last.slot # NilSlot
    /\ p.Stdout = last.slot
    /\ p.Stderr = last.slot
    /\ StderrStackLen(p) = 1
    /\ StdoutStackLen(p) = 0
    /\ StdinStackLen(p) = 0

\* C32. setNew has no stack or alias effect: SetNewStdin, SetNewStdout and
\* SetNewStderr each put a new, empty buffer in their own role and leave
\* the other two roles, the three stacks, the status code and the error
\* unchanged; the aliasing rule is not applied (with Stdout == Stderr == S,
\* SetNewStdout leaves Stderr == S and Stdout != Stderr).
SetNewReplacesOwnRoleOnly ==
    ~p.isnil =>
        LET a == SetNewStdin(p, heap)
            b == SetNewStdout(p, heap)
            c == SetNewStderr(p, heap)
        IN  /\ a.pipe = [p EXCEPT !.Stdin = a.pipe.Stdin]
            /\ b.pipe = [p EXCEPT !.Stdout = b.pipe.Stdout]
            /\ c.pipe = [p EXCEPT !.Stderr = c.pipe.Stderr]
            /\ \A s \in {a.pipe.Stdin, b.pipe.Stdout, c.pipe.Stderr} :
                  s # NilSlot /\ s \notin DOMAIN heap /\ s \notin Refs(p)
            /\ a.heap[a.pipe.Stdin] = <<>>
            /\ b.heap[b.pipe.Stdout] = <<>>
            /\ c.heap[c.pipe.Stderr] = <<>>
            /\ \A s \in DOMAIN heap :
                  a.heap[s] = heap[s] /\ b.heap[s] = heap[s] /\ c.heap[s] = heap[s]
            /\ Aliased(p) =>
                  /\ b.pipe.Stderr = p.Stderr
                  /\ b.pipe.Stdout # b.pipe.Stderr
                  /\ c.pipe.Stdout = p.Stdout
                  /\ c.pipe.Stdout # c.pipe.Stderr

\* SetNewStdout has just been called while the output roles were one
\* buffer: Stderr is a buffer still, Stdout is another
SetNewBrokeTheAlias ==
    /\ last.op = "SetNewStdout"
    /\ last.aliased
    /\ ~p.isnil
    /\ p.Stderr # NilSlot
    /\ p.Stdout # NilSlot
    /\ p.Stdout # p.Stderr

\* C33. Input role isolation: PushStdin and PopStdin never change Stdout,
\* Stderr, the Stdout stack or the Stderr stack, and no push or pop on
\* Stdout or Stderr (paired or only) changes Stdin or the Stdin stack, also
\* when Stdin is the very slot an output role holds.
StdinIsIsolated ==
    /\ \A x \in PushArgs :
          /\ PushStdin(p, x).Stdout = p.Stdout
          /\ PushStdin(p, x).Stderr = p.Stderr
          /\ PushStdin(p, x).stdoutStack = p.stdoutStack
          /\ PushStdin(p, x).stderrStack = p.stderrStack
          /\ PopStdin(PushStdin(p, x)) = p
          /\ PushStdout(p, x).Stdin = p.Stdin
          /\ PushStdout(p, x).stdinStack = p.stdinStack
          /\ PushStderr(p, x).Stdin = p.Stdin
          /\ PushStderr(p, x).stdinStack = p.stdinStack
    /\ PopStdin(p).Stdout = p.Stdout
    /\ PopStdin(p).Stderr = p.Stderr
    /\ PopStdin(p).stdoutStack = p.stdoutStack
    /\ PopStdin(p).stderrStack = p.stderrStack
    /\ \A q \in {PopStdout(p), PopStdoutOnly(p), PopStderr(p), PopStderrOnly(p)} :
          q.Stdin = p.Stdin /\ q.stdinStack = p.stdinStack

\* PushStdin has just put the stream the Stdout role holds in the Stdin
\* role: the Stdin stack holds one entry, the output stacks none
StdinSharesTheOutputStream ==
    /\ last.op = "PushStdin"
    /\ ~p.isnil
    /\ last.slot # NilSlot
    /\ p.Stdin = last.slot
    /\ p.Stdin = p.Stdout
    /\ StdinStackLen(p) = 1
    /\ StdoutStackLen(p) = 0
    /\ StderrStackLen(p) = 0

\* C34. No silent failure: in every state reached from NewPipe() by
\* RunCommand, ResetError, ResetBuffers, setNew, pushes and pops,
\* StatusCode() != StatusOkay implies Error() != nil, that is, Okay()
\* implies StatusCode() == StatusOkay.
NoSilentFailure ==
    /\ StatusCode(p) # StatusOkay => Error(p) # NoErr
    /\ Okay(p) => StatusCode(p) = StatusOkay

\* a pop has just been made on a pipe that holds the status 2 and the error
\* made for it
FailureOutlivedRedirection ==
    /\ last.op \in PopOps
    /\ last.len = 1
    /\ ~p.isnil
    /\ StatusCode(p) = 2
    /\ Error(p) = ErrNonZeroStatusCode("command", 2)
    /\ ~Okay(p)

\* C35. Sequence mirrors the context: after every Exec of a List or Pipeline
\* that ran at least one step, the status and error exposed by the Sequence
\* are equal to the last status and last error stored on its pipe.
SequenceMirrorsContext ==
    (pc.at \in {"done", "halted"} /\ trace.calls # <<>>) =>
        /\ sq.StatusCode = sq.Pipe.StatusCode
        /\ sq.Err = sq.Pipe.Err

\* the controller has returned after invoking a step, and the last step it
\* invoked returned a non-nil error
LastStepReportedError ==
    /\ pc.at \in {"done", "halted"}
    /\ trace.calls # <<>>
    /\ trace.ret[2] # NoErr

\* the sequence is nil, or no step has returned an error or a status other
\* than StatusOkay
NeverFailed ==
    \/ sq.isnil
    \/ pc.at \in {"idle", "returned"}
    \/ pc.at \in {"done", "halted"} /\ trace.failed = 0 /\ trace.bad = 0

\* C39 as stated. Okay reflects pipeline errors: after an Exec in which a
\* step reported an error (so the sequence's recorded error is non-nil),
\* Sequence.Okay() returns false together with that error, for every status
\* code the failing step returned; on a nil sequence or one that never
\* failed it returns (true, nil).
OkayFalseAfterEveryStepError ==
    /\ LastStepReportedError =>
          /\ SequenceError(sq) = trace.ret[2]
          /\ SequenceOkay(sq) = <<FALSE, trace.ret[2]>>
    /\ NeverFailed => SequenceOkay(sq) = <<TRUE, NoErr>>

\* C39, amended. After an Exec in which a step reported an error (so the
\* sequence's recorded error is non-nil), Sequence.Okay() returns that error
\* together with whether the status code the failing step returned is
\* StatusOkay: false for every other status code, true for StatusOkay; on a
\* nil sequence or one that never failed it returns (true, nil).
OkayFollowsStatusOfFailingStep ==
    /\ LastStepReportedError =>
          /\ SequenceError(sq) = trace.ret[2]
          /\ SequenceOkay(sq) = <<trace.ret[1] = StatusOkay, trace.ret[2]>>
    /\ NeverFailed => SequenceOkay(sq) = <<TRUE, NoErr>>

\* a pipeline has halted at a step that returned StatusOkay with an error:
\* Okay() returns true together with the error
OkayTrueWithError ==
    /\ pc.kind = "PipelineController"
    /\ pc.at = "halted"
    /\ trace.ret[1] = StatusOkay
    /\ trace.ret[2] # NoErr
    /\ SequenceOkay(sq)[1]
    /\ SequenceOkay(sq)[2] = trace.ret[2]

\* C36. Repeated Exec does not reset state: Exec may be invoked again on the
\* same Sequence, and nothing is reset between the runs. The controller of
\* a later run finds the sequence's status and error and the pipe's three
\* streams, with their contents, as the run before left them; in a later
\* run of a Pipeline the first step's Stdin holds what the run before left
\* in Stdout; a later run of a List appends what its steps write to the
\* Stdout and Stderr the run before left. (The pipe the controllers work
\* on has the three streams only: it keeps no redirection stacks.)
RepeatedExecKeepsState ==
    trace.runs > 0 =>
        /\ pc.at = "idle" =>
              /\ sq.StatusCode = trace.left.StatusCode
              /\ sq.Err = trace.left.Err
              /\ <<sq.Pipe.Stdin, sq.Pipe.Stdout, sq.Pipe.Stderr>> = trace.left.ids
              /\ Contents(mem, sq.Pipe.Stdout) = trace.left.out
              /\ Contents(mem, sq.Pipe.Stderr) = trace.left.err
        /\ trace.looped =>
              /\ trace.ids0 = trace.left.ids
              /\ trace.out0 = trace.left.out
              /\ trace.err0 = trace.left.err
        /\ (pc.kind = "PipelineController" /\ trace.calls # <<>>) =>
              trace.in1 = trace.left.out
        /\ (pc.kind = "ListController" /\ trace.looped) =>
              /\ <<sq.Pipe.Stdin, sq.Pipe.Stdout, sq.Pipe.Stderr>> = trace.left.ids
              /\ Contents(mem, sq.Pipe.Stdout) = trace.left.out \o trace.allOut
              /\ Contents(mem, sq.Pipe.Stderr) = trace.left.err \o trace.allErr

\* in its second run a pipeline's first step has found in Stdin the text
\* the first run left in Stdout
SecondRunReadFirstRunsOutput ==
    /\ pc.kind = "PipelineController"
    /\ trace.runs = 1
    /\ trace.calls # <<>>
    /\ trace.left.out # <<>>
    /\ trace.in1 = trace.left.out

ExecTerminates ==
    /\ <>(pc.at \in {"returned", "done", "halted", "panic"})
    /\ [](Len(trace.calls) <= Len(sq.Steps))
    /\ []((pc.kind = "ListController" /\ pc.at \in {"done", "halted"}) =>
            /\ pc.at = "done"
            /\ Len(trace.calls) = Len(sq.Steps))
    /\ []((pc.at \in {"returned", "done", "halted"} /\ sq.Steps = <<>>) =>
            /\ trace.calls = <<>>
            /\ sq.StatusCode = StatusOkay
            /\ sq.Err = NoErr
            /\ trace.looped =>
                  /\ <<sq.Pipe.Stdin, sq.Pipe.Stdout, sq.Pipe.Stderr>> = trace.ids0
                  /\ Contents(mem, sq.Pipe.Stdin) = <<>>
                  /\ Contents(mem, sq.Pipe.Stdout) = trace.out0
                  /\ Contents(mem, sq.Pipe.Stderr) = trace.err0)

\* a list of three steps has returned from Exec after three invocations,
\* the first of which returned an error
ListTerminatedAfterEveryStep ==
    /\ pc.kind = "ListController"
    /\ pc.at = "done"
    /\ Len(sq.Steps) = 3
    /\ Len(trace.calls) = 3
    /\ trace.failed = 1

====
